---- MODULE Spec2Model ----
(***************************************************************************)
(* CCSL: the contribution registry (License) and the settlement engine     *)
(* (BitcoinPaymentManager) with its detached verification threads.         *)
(*                                                                         *)
(* Spec          the settlement engine: one control thread calling         *)
(*               sendPayment / verifyPayment / getTransactions, and one    *)
(*               detached worker thread per successful sendPayment.        *)
(* SpecRegistry  License::registerContribution.                            *)
(* SpecLedger    PaymentManager::recordPayment and the totals it keeps.    *)
(* SpecSubscriptions  RecurringPaymentManager: addSubscription,            *)
(*               removeSubscription, processDuePayments, and the clock.    *)
(* SpecSubscriptionFailures  the same, with sendPayment calls that throw   *)
(*               inside processDuePayments.                                *)
(* SpecConstructors  the constructors of CodeContribution and              *)
(*               PaymentSubscription with the arguments they check.        *)
(* SpecCaller    a caller's CodeContribution: addMetricEvaluation,         *)
(*               calculateValue, and registerContribution of the object.   *)
(* SpecMetrics   MetricsEvaluator: evaluateAll and calculateValue on code  *)
(*               fragments, and the clock.                                 *)
(* SpecLifetime  the settlement engine with its destruction: sendPayment,  *)
(*               the workers, and the engine going out of scope.           *)
(***************************************************************************)
EXTENDS Integers, Sequences, FiniteSets, TLC

VARIABLES
    m_transactions,   \* BitcoinPaymentManager::m_transactions (std::vector)
    capacity,         \* m_transactions.capacity()
    buffer,           \* identity of the vector's heap buffer (changes on reallocation)
    threads,          \* the detached worker threads, in spawn order
    call,             \* the control thread's current / most recent engine call
    uuidCount,        \* number of generateUUID() calls made so far
    terminated,       \* std::terminate / abnormal termination of the process
    m_contributions,  \* License::m_contributions (std::vector)
    m_payments,       \* PaymentManager::m_payments (unordered_map contributor -> total)
    recordPaymentCalls, \* history: the recordPayment calls made, with their results
    now,              \* std::chrono::system_clock::now(), in days
    m_subscriptions,  \* RecurringPaymentManager::m_subscriptions (std::vector)
    callerContribution, \* the caller's CodeContribution object: <<>> before it
                      \* is constructed, <<object>> after
    m_evaluators,     \* MetricsEvaluator::m_evaluators (std::vector of evaluators)
    firstEvaluateAll, \* history: for each code fragment, the first evaluateAll
                      \* call made on it, with its time and its result
    alive             \* the BitcoinPaymentManager object is within its lifetime

vars == <<m_transactions, capacity, buffer, threads, call, uuidCount, terminated,
          m_contributions, m_payments, recordPaymentCalls, now, m_subscriptions,
          callerContribution, m_evaluators, firstEvaluateAll, alive>>

callerVars == <<callerContribution>>

metricsVars == <<m_evaluators, firstEvaluateAll>>

lifetimeVars == <<alive>>

ledgerVars == <<m_payments, recordPaymentCalls>>
schedulerVars == <<now, m_subscriptions>>

-----------------------------------------------------------------------------
(* Bounds of the model *)

\* number of successful sendPayment calls explored
MaxSends == 2
\* largest line number of a contribution
MaxLine == 3
\* number of registerContribution calls that succeed
MaxContributions == 2
\* number of recordPayment calls explored
MaxRecordPayments == 3
\* last day the clock reaches
MaxNow == 2
\* number of records processDuePayments may bring the log to
MaxPayments == 2

-----------------------------------------------------------------------------
(* utility.cpp *)

MinAddressLength == 25
MaxAddressLength == 34

Digits == {"0", "1", "2", "3", "4", "5", "6", "7", "8", "9"}
Lower == {"a", "b", "c", "d", "e", "f", "g", "h", "i", "j", "k", "l", "m",
          "n", "o", "p", "q", "r", "s", "t", "u", "v", "w", "x", "y", "z"}
Upper == {"A", "B", "C", "D", "E", "F", "G", "H", "I", "J", "K", "L", "M",
          "N", "O", "P", "Q", "R", "S", "T", "U", "V", "W", "X", "Y", "Z"}

\* the characters of a std::string
chars(address) ==
    CASE address = "1A1zP1eP5QGefi2DMPTfTL5SLmv7DivfNa" ->
           <<"1", "A", "1", "z", "P", "1", "e", "P", "5", "Q", "G", "e", "f", "i", "2", "D",
             "M", "P", "T", "f", "T", "L", "5", "S", "L", "m", "v", "7", "D", "i", "v", "f",
             "N", "a">>
      [] address = "3J98t1WpEZ73CNmQviecrnyiWrnqRhWNLy" ->
           <<"3", "J", "9", "8", "t", "1", "W", "p", "E", "Z", "7", "3", "C", "N", "m", "Q",
             "v", "i", "e", "c", "r", "n", "y", "i", "W", "r", "n", "q", "R", "h", "W", "N",
             "L", "y">>
      [] address = "invalid-wallet" ->
           <<"i", "n", "v", "a", "l", "i", "d", "-", "w", "a", "l", "l", "e", "t">>

AlphaNumeric == Lower \cup Upper \cup Digits

\* std::regex_match(address, "^[a-zA-Z0-9]+$")
validChars(address) ==
    LET c == chars(address)
    IN  Len(c) >= 1 /\ \A i \in 1..Len(c) : c[i] \in AlphaNumeric

\* address.substr(0, 3)
substr3(address) ==
    LET c == chars(address)
    IN  SubSeq(c, 1, IF Len(c) < 3 THEN Len(c) ELSE 3)

validateBitcoinAddress(address) ==
    LET c == chars(address)
    IN  IF Len(c) < MinAddressLength \/ Len(c) > MaxAddressLength
        THEN FALSE
        ELSE IF ~(c[1] = "1" \/ c[1] = "3" \/ substr3(address) = <<"b", "c", "1">>)
        THEN FALSE
        ELSE validChars(address)

\* generateUUID(): the n-th token drawn; tokens are modelled as fresh
generateUUID(n) == n

-----------------------------------------------------------------------------
(* Inputs of the control thread *)

\* the wallet addresses used by the tests and examples
WalletA == "1A1zP1eP5QGefi2DMPTfTL5SLmv7DivfNa"
WalletB == "3J98t1WpEZ73CNmQviecrnyiWrnqRhWNLy"
WalletBad == "invalid-wallet"

SourceWallets == {WalletA, WalletBad}
DestinationWallets == {WalletB, WalletBad}
\* amounts in units of 0.001 BTC
Amounts == {-1, 0, 1}
\* the contribution payments are sent for, and one no payment is sent for
ContributionIds == {"c1"}
QueriedContributionIds == {"c1", "non-existent"}
\* the callback argument: empty std::function, one that returns, one that throws
Callbacks == {"none", "returns", "throws"}
TransactionIds == 1..(MaxSends + 1)

-----------------------------------------------------------------------------
(* license.cpp: PaymentManager (the ledger) *)

\* the contributor of the tests' contribution, and one never paid
LedgerContributors == {"Bob", "Alice"}
\* the CodeContribution objects handed to recordPayment
LedgerContributions ==
    [contributor : LedgerContributors, fileId : {"utils.cpp"},
     lineStart : {1}, lineEnd : {MaxLine}]
\* amounts in units of 0.001 BTC
LedgerAmounts == {-1, 0, 1, 2}

\* m_payments.find(contributor): the stored total, or 0.0
getTotalPaymentsForContributor(contributor) ==
    IF contributor \in DOMAIN m_payments THEN m_payments[contributor] ELSE 0

\* m_payments[key] = amount in place of +=
AddToOverwrites(payments, key, amount) ==
    [c \in (DOMAIN payments) \cup {key} |->
        IF c = key THEN amount ELSE payments[c]]

\* m_payments[key] += amount (operator[] inserts 0.0 for a new key)
AddTo(payments, key, amount) ==
    [c \in (DOMAIN payments) \cup {key} |->
        (IF c \in DOMAIN payments THEN payments[c] ELSE 0)
            + (IF c = key THEN amount ELSE 0)]

\* recordPayment with the amount check dropped
recordPaymentUnchecked(contribution, amount) ==
    /\ Len(recordPaymentCalls) < MaxRecordPayments
    /\ m_payments' = AddTo(m_payments, contribution.contributor, amount)
    /\ recordPaymentCalls' = Append(recordPaymentCalls,
          [contributor |-> contribution.contributor, amount |-> amount,
           result |-> TRUE])
    /\ UNCHANGED <<m_transactions, capacity, buffer, threads, call, uuidCount,
                   terminated, m_contributions, schedulerVars,
                   callerVars,
                   metricsVars,
                   lifetimeVars>>

recordPayment(contribution, amount) ==
    /\ Len(recordPaymentCalls) < MaxRecordPayments
    /\ IF amount <= 0
       THEN /\ UNCHANGED m_payments
            /\ recordPaymentCalls' = Append(recordPaymentCalls,
                  [contributor |-> contribution.contributor, amount |-> amount,
                   result |-> FALSE])
       ELSE /\ m_payments' = AddTo(m_payments, contribution.contributor, amount)
            /\ recordPaymentCalls' = Append(recordPaymentCalls,
                  [contributor |-> contribution.contributor, amount |-> amount,
                   result |-> TRUE])
    /\ UNCHANGED <<m_transactions, capacity, buffer, threads, call, uuidCount,
                   terminated, m_contributions, schedulerVars,
                   callerVars,
                   metricsVars,
                   lifetimeVars>>

RecordPayment ==
    \E contribution \in LedgerContributions, amount \in LedgerAmounts :
        recordPayment(contribution, amount)

-----------------------------------------------------------------------------
(* payment.cpp: BitcoinPaymentManager *)

\* iterator values held by a worker: a position in a buffer, or end()
End == [buf |-> 0, idx |-> 0]

\* find_if stopping at the first record, whatever its id
find_ifFront(transactions, transactionId) ==
    IF transactions = <<>> THEN 0 ELSE 1

\* std::find_if over a vector for the first record with the given id (0: end())
find_if(transactions, transactionId) ==
    IF \E i \in 1..Len(transactions) : transactions[i].transactionId = transactionId
    THEN CHOOSE i \in 1..Len(transactions) :
            /\ transactions[i].transactionId = transactionId
            /\ \A j \in 1..(i - 1) : transactions[j].transactionId # transactionId
    ELSE 0

\* verifyPayment returning whether the record was found
verifyPaymentFound(transactionId) ==
    find_if(m_transactions, transactionId) # 0

verifyPayment(transactionId) ==
    LET it == find_if(m_transactions, transactionId)
    IN  IF it # 0 THEN m_transactions[it].verified ELSE FALSE

getTransactions == m_transactions

getTransactionsForContribution(contributionId) ==
    SelectSeq(m_transactions, LAMBDA t : t.contributionId = contributionId)

\* sendPaymentCheck without the amount check
sendPaymentCheckWallets(sourceWallet, destinationWallet, amount) ==
    IF ~validateBitcoinAddress(sourceWallet)
    THEN "Invalid source wallet address"
    ELSE IF ~validateBitcoinAddress(destinationWallet)
    THEN "Invalid destination wallet address"
    ELSE ""

\* sendPaymentCheck with the amount checked first
sendPaymentCheckAmountFirst(sourceWallet, destinationWallet, amount) ==
    IF amount <= 0
    THEN "Payment amount must be greater than zero"
    ELSE IF ~validateBitcoinAddress(sourceWallet)
    THEN "Invalid source wallet address"
    ELSE IF ~validateBitcoinAddress(destinationWallet)
    THEN "Invalid destination wallet address"
    ELSE ""

\* the three argument checks at the head of sendPayment, in order:
\* "" when all pass, otherwise what() of the std::invalid_argument thrown
sendPaymentCheck(sourceWallet, destinationWallet, amount) ==
    IF ~validateBitcoinAddress(sourceWallet)
    THEN "Invalid source wallet address"
    ELSE IF ~validateBitcoinAddress(destinationWallet)
    THEN "Invalid destination wallet address"
    ELSE IF amount <= 0
    THEN "Payment amount must be greater than zero"
    ELSE ""

\* the exception object a failing sendPayment throws
sendPaymentException(sourceWallet, destinationWallet, amount) ==
    [type |-> "std::invalid_argument",
     what |-> sendPaymentCheck(sourceWallet, destinationWallet, amount)]

\* NewTransaction with the record born verified
NewTransactionVerified(sourceWallet, destinationWallet, amount, contributionId) ==
    [transactionId     |-> generateUUID(uuidCount + 1),
     sourceWallet      |-> sourceWallet,
     destinationWallet |-> destinationWallet,
     amount            |-> amount,
     timestamp         |-> now,
     contributionId    |-> contributionId,
     verified          |-> TRUE]

\* the PaymentTransaction built by sendPayment
NewTransaction(sourceWallet, destinationWallet, amount, contributionId) ==
    [transactionId     |-> generateUUID(uuidCount + 1),
     sourceWallet      |-> sourceWallet,
     destinationWallet |-> destinationWallet,
     amount            |-> amount,
     timestamp         |-> now,
     contributionId    |-> contributionId,
     verified          |-> FALSE]

\* m_transactions.insert(begin, transaction) in place of push_back
push_front(transactions, transaction) == <<transaction>> \o transactions

\* m_transactions.push_back(transaction)
push_back(transactions, transaction) == Append(transactions, transaction)

\* the capacity std::vector::push_back grows to when size() = capacity()
\* (doubling, as libstdc++ and libc++ do)
GrownCapacity(size) ==
    IF size = 0 THEN 1 ELSE 2 * size

\* the std::thread started by sendPayment, with its captures and its promise
NewThread(transaction, callback) ==
    [transaction |-> transaction,
     callback    |-> callback,
     pc          |-> "sleep",
     it          |-> End,
     verified    |-> FALSE,
     invocations |-> 0,
     promise     |-> "pending",
     value       |-> 0]

Idle == [op |-> "none", status |-> "returned"]

\* the control thread can call the engine: the process runs, the engine
\* object exists, no call is in progress
ControlReady == ~terminated /\ alive /\ call.status # "running"

\* sendPayment, an argument check failing: throws before anything is stored
SendPaymentThrows(sourceWallet, destinationWallet, amount) ==
    /\ ControlReady
    /\ sendPaymentCheck(sourceWallet, destinationWallet, amount) # ""
    /\ call' = [op |-> "sendPayment",
                args |-> <<sourceWallet, destinationWallet, amount>>,
                status |-> "threw",
                exception |-> sendPaymentException(sourceWallet, destinationWallet, amount)]
    /\ UNCHANGED <<m_transactions, capacity, buffer, threads, uuidCount, terminated,
                   m_contributions,
                   ledgerVars, schedulerVars,
                   callerVars,
                   metricsVars,
                   lifetimeVars>>

\* sendPayment, every check passing: the record is stored, the worker thread
\* is detached, the future is returned
SendPaymentReturns(sourceWallet, destinationWallet, amount, contributionId, callback) ==
    /\ ControlReady
    /\ Len(threads) < MaxSends
    /\ sendPaymentCheck(sourceWallet, destinationWallet, amount) = ""
    /\ LET transaction == NewTransaction(sourceWallet, destinationWallet, amount, contributionId)
       IN  /\ uuidCount' = uuidCount + 1
           /\ m_transactions' = push_back(m_transactions, transaction)
           /\ IF Len(m_transactions) = capacity
              THEN /\ capacity' = GrownCapacity(Len(m_transactions))
                   /\ buffer' = buffer + 1
              ELSE UNCHANGED <<capacity, buffer>>
           /\ threads' = Append(threads, NewThread(transaction, callback))
           /\ call' = [op |-> "sendPayment",
                       args |-> <<sourceWallet, destinationWallet, amount>>,
                       status |-> "returned"]
    /\ UNCHANGED <<terminated, m_contributions,
                   ledgerVars, schedulerVars,
                   callerVars,
                   metricsVars,
                   lifetimeVars>>

\* a sendPayment call of the control thread (the arguments after amount are
\* not read before the checks)
sendPayment ==
    \E sourceWallet \in SourceWallets, destinationWallet \in DestinationWallets,
       amount \in Amounts :
        \/ SendPaymentThrows(sourceWallet, destinationWallet, amount)
        \/ \E contributionId \in ContributionIds, callback \in Callbacks :
              SendPaymentReturns(sourceWallet, destinationWallet, amount,
                                 contributionId, callback)

-----------------------------------------------------------------------------
(* payment.cpp: the worker lambda of sendPayment *)

Running(w) == ~terminated /\ w \in 1..Len(threads)

\* sleep_for(2s); verified = true; it = find_if(m_transactions ...)
WorkerFind(w) ==
    /\ Running(w)
    /\ threads[w].pc = "sleep"
    /\ LET idx == find_if(m_transactions, threads[w].transaction.transactionId)
       IN  threads' = [threads EXCEPT ![w].pc = "update",
                                      ![w].verified = TRUE,
                                      ![w].it = IF idx = 0 THEN End
                                                ELSE [buf |-> buffer, idx |-> idx]]
    /\ UNCHANGED <<m_transactions, capacity, buffer, call, uuidCount, terminated,
                   m_contributions,
                   ledgerVars, schedulerVars,
                   callerVars,
                   metricsVars,
                   lifetimeVars>>

\* WorkerUpdate with the payment recorded in the ledger at the store
WorkerUpdateRecordsPayment(w) ==
    /\ Running(w)
    /\ threads[w].pc = "update"
    /\ threads' = [threads EXCEPT ![w].pc = "callback"]
    /\ LET it == threads[w].it
       IN  IF it = End
           THEN UNCHANGED <<m_transactions, terminated, m_payments>>
           ELSE IF it.buf = buffer
           THEN /\ m_transactions' =
                      [m_transactions EXCEPT ![it.idx].verified = threads[w].verified]
                /\ m_payments' = AddTo(m_payments, threads[w].transaction.contributionId,
                                       threads[w].transaction.amount)
                /\ UNCHANGED terminated
           ELSE /\ UNCHANGED <<m_transactions, m_payments>>
                /\ terminated' \in {FALSE, TRUE}
    /\ UNCHANGED <<capacity, buffer, call, uuidCount, m_contributions,
                   recordPaymentCalls, schedulerVars,
                   callerVars,
                   metricsVars,
                   lifetimeVars>>

\* if (it != end) it->verified = verified;  the iterator points into the buffer
\* the vector had at find_if: after a reallocation it dangles and the store goes
\* to freed memory (lost, or fatal)
WorkerUpdate(w) ==
    /\ Running(w)
    /\ threads[w].pc = "update"
    /\ threads' = [threads EXCEPT ![w].pc = "callback"]
    /\ LET it == threads[w].it
       IN  IF it = End
           THEN UNCHANGED <<m_transactions, terminated>>
           ELSE IF it.buf = buffer
           THEN /\ m_transactions' =
                      [m_transactions EXCEPT ![it.idx].verified = threads[w].verified]
                /\ UNCHANGED terminated
           ELSE /\ UNCHANGED m_transactions
                /\ terminated' \in {FALSE, TRUE}
    /\ UNCHANGED <<capacity, buffer, call, uuidCount, m_contributions,
                   ledgerVars, schedulerVars,
                   callerVars,
                   metricsVars,
                   lifetimeVars>>

\* if (callback) callback(transaction, verified);  an exception leaving the
\* callback leaves the thread function: std::terminate
WorkerCallback(w) ==
    /\ Running(w)
    /\ threads[w].pc = "callback"
    /\ IF threads[w].callback = "none"
       THEN /\ threads' = [threads EXCEPT ![w].pc = "resolve"]
            /\ UNCHANGED terminated
       ELSE /\ threads' = [threads EXCEPT ![w].pc = "resolve",
                                          ![w].invocations = @ + 1]
            /\ terminated' = (threads[w].callback = "throws")
    /\ UNCHANGED <<m_transactions, capacity, buffer, call, uuidCount, m_contributions,
                   ledgerVars, schedulerVars,
                   callerVars,
                   metricsVars,
                   lifetimeVars>>

\* promise.set_value(transaction.transactionId)
WorkerResolve(w) ==
    /\ Running(w)
    /\ threads[w].pc = "resolve"
    /\ threads' = [threads EXCEPT ![w].pc = "done",
                                  ![w].promise = "ready",
                                  ![w].value = threads[w].transaction.transactionId]
    /\ UNCHANGED <<m_transactions, capacity, buffer, call, uuidCount, terminated,
                   m_contributions,
                   ledgerVars, schedulerVars,
                   callerVars,
                   metricsVars,
                   lifetimeVars>>

Worker == \E w \in 1..MaxSends :
    WorkerFind(w) \/ WorkerUpdate(w) \/ WorkerCallback(w) \/ WorkerResolve(w)

\* callback(transaction, verified): the lambda's copy of the record, captured
\* by value when the thread was started, and the local verified
CallbackArguments(w) == <<threads[w].transaction, threads[w].verified>>

-----------------------------------------------------------------------------
(* payment.hpp: the lifetime of the BitcoinPaymentManager object.  The class *)
(* declares no destructor and the worker threads are detached, capturing     *)
(* this: the object can go out of scope while workers are asleep.            *)

\* the engine goes out of scope on the control thread; the implicit
\* destructor joins nothing.  The variables keep what the freed memory held.
Destroy ==
    /\ ControlReady
    /\ alive' = FALSE
    /\ call' = [op |-> "~BitcoinPaymentManager", status |-> "returned"]
    /\ UNCHANGED <<m_transactions, capacity, buffer, threads, uuidCount, terminated,
                   m_contributions, ledgerVars, schedulerVars, callerVars,
                   metricsVars>>

\* a worker reaching this->m_transactions of a destroyed engine: the access is
\* undefined; it either goes on as if the memory were intact (WorkerFind,
\* WorkerUpdate) or ends the process
WorkerUseAfterFree(w) ==
    /\ Running(w)
    /\ ~alive
    /\ threads[w].pc \in {"sleep", "update"}
    /\ terminated' = TRUE
    /\ UNCHANGED <<m_transactions, capacity, buffer, threads, call, uuidCount,
                   m_contributions, ledgerVars, schedulerVars, callerVars,
                   metricsVars, lifetimeVars>>

-----------------------------------------------------------------------------
(* payment.cpp: the read calls of the control thread.  Neither takes a lock, *)
(* so each spans an interval during which the workers keep running.         *)

ReadOps == {"getTransactions", "verifyPayment", "getTransactionsForContribution"}

\* the control thread enters getTransactions / verifyPayment /
\* getTransactionsForContribution
ReadBegin ==
    /\ ControlReady
    /\ \/ \E op \in ReadOps \ {"verifyPayment"} :
              call' = [op |-> op, status |-> "running"]
       \/ \E transactionId \in TransactionIds :
              call' = [op |-> "verifyPayment", args |-> <<transactionId>>,
                       status |-> "running"]
    /\ UNCHANGED <<m_transactions, capacity, buffer, threads, uuidCount, terminated,
                   m_contributions,
                   ledgerVars, schedulerVars,
                   callerVars,
                   metricsVars,
                   lifetimeVars>>

\* ... and returns from it; verifyPayment returns what it reads
ReadEnd ==
    /\ ~terminated
    /\ call.status = "running"
    /\ IF call.op = "verifyPayment"
       THEN call' = [op |-> call.op, args |-> call.args, status |-> "returned",
                     result |-> verifyPayment(call.args[1])]
       ELSE call' = [op |-> call.op, status |-> "returned"]
    /\ UNCHANGED <<m_transactions, capacity, buffer, threads, uuidCount, terminated,
                   m_contributions,
                   ledgerVars, schedulerVars,
                   callerVars,
                   metricsVars,
                   lifetimeVars>>

-----------------------------------------------------------------------------
(* license.cpp: License::registerContribution *)

FileIds == {"api.cpp", "util.cpp"}
Contributors == {"Carol"}
\* the constructor arguments tried: the above, and the empty string
ContributorArguments == Contributors \cup {""}
FileIdArguments == FileIds \cup {""}

\* CodeContributionCheck without the fileId check
CodeContributionCheckNoFileId(contributor, fileId, lineStart, lineEnd) ==
    IF lineStart > lineEnd
    THEN "Start line must be less than or equal to end line"
    ELSE IF contributor = ""
    THEN "Contributor name cannot be empty"
    ELSE ""

\* the checks of the CodeContribution constructor, in order: "" when all
\* pass, otherwise what() of the std::invalid_argument thrown
CodeContributionCheck(contributor, fileId, lineStart, lineEnd) ==
    IF lineStart > lineEnd
    THEN "Start line must be less than or equal to end line"
    ELSE IF contributor = ""
    THEN "Contributor name cannot be empty"
    ELSE IF fileId = ""
    THEN "File ID cannot be empty"
    ELSE ""

\* the object the constructor builds: the members of the initializer list,
\* and no evaluation
CodeContribution(contributor, fileId, lineStart, lineEnd) ==
    [contributor   |-> contributor,
     fileId        |-> fileId,
     lineStart     |-> lineStart,
     lineEnd       |-> lineEnd,
     m_evaluations |-> <<>>]

\* the CodeContribution objects the constructor returns
CodeContributions ==
    {CodeContribution(a[1], a[2], a[3], a[4]) :
        a \in {b \in ContributorArguments \X FileIdArguments \X (1..MaxLine) \X (1..MaxLine) :
                  CodeContributionCheck(b[1], b[2], b[3], b[4]) = ""}}

\* a constructor call of the caller: it throws, or returns the object
CodeContributionConstructor ==
    /\ ControlReady
    /\ \E contributor \in ContributorArguments, fileId \in FileIdArguments,
          lineStart \in 1..MaxLine, lineEnd \in 1..MaxLine :
          LET what == CodeContributionCheck(contributor, fileId, lineStart, lineEnd)
              args == <<contributor, fileId, lineStart, lineEnd>>
          IN  IF what # ""
              THEN call' = [op |-> "CodeContribution", args |-> args,
                            status |-> "threw",
                            exception |-> [type |-> "std::invalid_argument",
                                           what |-> what]]
              ELSE call' = [op |-> "CodeContribution", args |-> args,
                            status |-> "returned",
                            object |-> CodeContribution(contributor, fileId,
                                                        lineStart, lineEnd)]
    /\ UNCHANGED <<m_transactions, capacity, buffer, threads, uuidCount, terminated,
                   m_contributions, ledgerVars, schedulerVars, callerVars,
                   metricsVars,
                   lifetimeVars>>

\* Conflicts looking at the new start line only
ConflictsStartOnly(c, contribution) ==
    LET start == c.lineStart
        end == c.lineEnd
        newStart == contribution.lineStart
    IN  /\ c.fileId = contribution.fileId
        /\ (newStart >= start /\ newStart <= end)

\* Conflicts taking a range that starts right after the stored one for a conflict
ConflictsAdjacent(c, contribution) ==
    LET start == c.lineStart
        end == c.lineEnd
        newStart == contribution.lineStart
        newEnd == contribution.lineEnd
    IN  /\ c.fileId = contribution.fileId
        /\ \/ (newStart >= start /\ newStart <= end + 1)
           \/ (newEnd >= start /\ newEnd <= end)

\* the find_if predicate of registerContribution: c is a stored contribution
Conflicts(c, contribution) ==
    LET start == c.lineStart
        end == c.lineEnd
        newStart == contribution.lineStart
        newEnd == contribution.lineEnd
    IN  /\ c.fileId = contribution.fileId
        /\ \/ (newStart >= start /\ newStart <= end)
           \/ (newEnd >= start /\ newEnd <= end)

\* registerContribution inserting at the front of m_contributions
registerContributionPrepends(contribution) ==
    /\ call.status # "running"
    /\ IF \E i \in 1..Len(m_contributions) : Conflicts(m_contributions[i], contribution)
       THEN /\ call' = [op |-> "registerContribution", args |-> <<contribution>>,
                        status |-> "returned", result |-> FALSE]
            /\ UNCHANGED m_contributions
       ELSE /\ Len(m_contributions) < MaxContributions
            /\ m_contributions' = <<contribution>> \o m_contributions
            /\ call' = [op |-> "registerContribution", args |-> <<contribution>>,
                        status |-> "returned", result |-> TRUE]
    /\ UNCHANGED <<m_transactions, capacity, buffer, threads, uuidCount, terminated,
                   ledgerVars, schedulerVars,
                   callerVars,
                   metricsVars,
                   lifetimeVars>>

\* registerContribution storing the object without its evaluations
registerContributionWithoutEvaluations(contribution) ==
    /\ call.status # "running"
    /\ IF \E i \in 1..Len(m_contributions) : Conflicts(m_contributions[i], contribution)
       THEN /\ call' = [op |-> "registerContribution", args |-> <<contribution>>,
                        status |-> "returned", result |-> FALSE]
            /\ UNCHANGED m_contributions
       ELSE /\ Len(m_contributions) < MaxContributions
            /\ m_contributions' =
                  Append(m_contributions, [contribution EXCEPT !.m_evaluations = <<>>])
            /\ call' = [op |-> "registerContribution", args |-> <<contribution>>,
                        status |-> "returned", result |-> TRUE]
    /\ UNCHANGED <<m_transactions, capacity, buffer, threads, uuidCount, terminated,
                   ledgerVars, schedulerVars,
                   callerVars,
                   metricsVars,
                   lifetimeVars>>

registerContribution(contribution) ==
    /\ call.status # "running"
    /\ IF \E i \in 1..Len(m_contributions) : Conflicts(m_contributions[i], contribution)
       THEN /\ call' = [op |-> "registerContribution", args |-> <<contribution>>,
                        status |-> "returned", result |-> FALSE]
            /\ UNCHANGED m_contributions
       ELSE /\ Len(m_contributions) < MaxContributions
            /\ m_contributions' = Append(m_contributions, contribution)
            /\ call' = [op |-> "registerContribution", args |-> <<contribution>>,
                        status |-> "returned", result |-> TRUE]
    /\ UNCHANGED <<m_transactions, capacity, buffer, threads, uuidCount, terminated,
                   ledgerVars, schedulerVars,
                   callerVars,
                   metricsVars,
                   lifetimeVars>>

Register == \E contribution \in CodeContributions : registerContribution(contribution)

-----------------------------------------------------------------------------
(* license.cpp: CodeContribution::addMetricEvaluation and calculateValue, *)
(* on the caller's object and on the copy registerContribution stores     *)

\* enum class MetricType
AllMetricTypes == {"IMPACT", "SIMPLICITY", "CLEANNESS", "COMMENT",
                   "CREDITABILITY", "NOVELTY"}
\* the kinds the caller evaluates
MetricTypes == {"IMPACT", "SIMPLICITY"}
\* evaluation values, in hundredths (0.75, 0.95)
MetricValues == {75, 95}
\* struct MetricEvaluation
MetricEvaluations == [type : MetricTypes, value : MetricValues, rationale : {"rationale"}]

\* addMetricEvaluation that always push_backs
addMetricEvaluationAppends(m_evaluations, evaluation) ==
    Append(m_evaluations, evaluation)

\* m_evaluations after addMetricEvaluation(evaluation): find_if by type, then
\* *it = evaluation when found, push_back otherwise
addMetricEvaluation(m_evaluations, evaluation) ==
    LET found == {i \in 1..Len(m_evaluations) : m_evaluations[i].type = evaluation.type}
    IN  IF found # {}
        THEN LET it == CHOOSE i \in found : \A j \in found : i <= j
             IN  [m_evaluations EXCEPT ![it] = evaluation]
        ELSE Append(m_evaluations, evaluation)

\* the loop of calculateValue: sum += eval.value
RECURSIVE SumOfValues(_)
SumOfValues(m_evaluations) ==
    IF m_evaluations = <<>>
    THEN 0
    ELSE Head(m_evaluations).value + SumOfValues(Tail(m_evaluations))

\* calculateValue dividing by the number of metric kinds there are
calculateValueOverAllTypes(m_evaluations) ==
    IF m_evaluations = <<>>
    THEN [num |-> 0, den |-> 1]
    ELSE [num |-> SumOfValues(m_evaluations), den |-> Cardinality(AllMetricTypes)]

\* calculateValue(): the quotient sum / m_evaluations.size() as the fraction
\* num / den (in hundredths), 0.0 when there is no evaluation
calculateValue(m_evaluations) ==
    IF m_evaluations = <<>>
    THEN [num |-> 0, den |-> 1]
    ELSE [num |-> SumOfValues(m_evaluations), den |-> Len(m_evaluations)]

\* the objects the caller constructs: two ranges of one file that do not
\* intersect
CallerContributions ==
    {CodeContribution("Carol", "api.cpp", 1, 2),
     CodeContribution("Carol", "api.cpp", 3, 3)}

\* CodeContribution contribution(...): the caller declares its object
DeclareContribution ==
    /\ ControlReady
    /\ \E contribution \in CallerContributions :
          /\ callerContribution' = <<contribution>>
          /\ call' = [op |-> "CodeContribution",
                      args |-> <<contribution.contributor, contribution.fileId,
                                 contribution.lineStart, contribution.lineEnd>>,
                      status |-> "returned", object |-> contribution]
    /\ UNCHANGED <<m_transactions, capacity, buffer, threads, uuidCount, terminated,
                   m_contributions, ledgerVars, schedulerVars,
                   metricsVars,
                   lifetimeVars>>

\* AddMetricEvaluation on an object the registry shares with the caller
AddMetricEvaluationShared(evaluation) ==
    /\ ControlReady
    /\ callerContribution # <<>>
    /\ callerContribution' =
          <<[callerContribution[1] EXCEPT
                !.m_evaluations = addMetricEvaluation(@, evaluation)]>>
    /\ m_contributions' =
          [i \in 1..Len(m_contributions) |->
              IF [m_contributions[i] EXCEPT !.m_evaluations = <<>>] =
                 [callerContribution[1] EXCEPT !.m_evaluations = <<>>]
              THEN callerContribution'[1]
              ELSE m_contributions[i]]
    /\ call' = [op |-> "addMetricEvaluation", args |-> <<evaluation>>,
                status |-> "returned"]
    /\ UNCHANGED <<m_transactions, capacity, buffer, threads, uuidCount, terminated,
                   ledgerVars, schedulerVars,
                   metricsVars,
                   lifetimeVars>>

\* contribution.addMetricEvaluation(evaluation) on the caller's object
AddMetricEvaluation(evaluation) ==
    /\ ControlReady
    /\ callerContribution # <<>>
    /\ callerContribution' =
          <<[callerContribution[1] EXCEPT
                !.m_evaluations = addMetricEvaluation(@, evaluation)]>>
    /\ call' = [op |-> "addMetricEvaluation", args |-> <<evaluation>>,
                status |-> "returned"]
    /\ UNCHANGED <<m_transactions, capacity, buffer, threads, uuidCount, terminated,
                   m_contributions, ledgerVars, schedulerVars,
                   metricsVars,
                   lifetimeVars>>

AttachEvaluation == \E evaluation \in MetricEvaluations : AddMetricEvaluation(evaluation)

\* contribution.calculateValue() on the caller's object
CalculateValue ==
    /\ ControlReady
    /\ callerContribution # <<>>
    /\ call' = [op |-> "calculateValue", status |-> "returned",
                result |-> calculateValue(callerContribution[1].m_evaluations)]
    /\ UNCHANGED <<m_transactions, capacity, buffer, threads, uuidCount, terminated,
                   m_contributions, ledgerVars, schedulerVars, callerVars,
                   metricsVars,
                   lifetimeVars>>

\* license.registerContribution(contribution) with the caller's object
RegisterCaller ==
    /\ callerContribution # <<>>
    /\ registerContribution(callerContribution[1])

-----------------------------------------------------------------------------
(* payment.cpp: PaymentSubscription and RecurringPaymentManager *)

SubscriberIds == {"contributor-1", "contributor-2"}
RemovedIds == SubscriberIds \cup {"non-existent"}
SubscriberWallets == {WalletA, WalletB}
\* subscription periods, in days
SubscriptionPeriods == {1, 2}

\* PaymentSubscription's constructor, run when the clock reads `created`
PaymentSubscription(contributorId, walletAddress, subscriptionPeriod, created) ==
    [contributorId      |-> contributorId,
     walletAddress      |-> walletAddress,
     subscriptionPeriod |-> subscriptionPeriod,
     nextPaymentDate    |-> created + subscriptionPeriod]

\* PaymentSubscriptionCheck without the period check
PaymentSubscriptionCheckNoPeriod(contributorId, walletAddress, subscriptionPeriod) ==
    IF contributorId = ""
    THEN "Contributor ID cannot be empty"
    ELSE IF ~validateBitcoinAddress(walletAddress)
    THEN "Invalid wallet address"
    ELSE ""

\* the checks of the PaymentSubscription constructor, in order: "" when all
\* pass, otherwise what() of the std::invalid_argument thrown
PaymentSubscriptionCheck(contributorId, walletAddress, subscriptionPeriod) ==
    IF contributorId = ""
    THEN "Contributor ID cannot be empty"
    ELSE IF ~validateBitcoinAddress(walletAddress)
    THEN "Invalid wallet address"
    ELSE IF subscriptionPeriod <= 0
    THEN "Subscription period must be greater than zero"
    ELSE ""

\* the constructor's checks: the arguments it does not throw on
SubscriptionArgumentsValid(contributorId, walletAddress, subscriptionPeriod) ==
    PaymentSubscriptionCheck(contributorId, walletAddress, subscriptionPeriod) = ""

\* the constructor arguments tried
SubscriberIdArguments == {"", "contributor-123"}
SubscriberWalletArguments == {WalletA, WalletBad}
SubscriptionPeriodArguments == {-1, 0, 1, 2}

\* a constructor call of the caller: it throws, or returns the object
PaymentSubscriptionConstructor ==
    /\ ControlReady
    /\ \E contributorId \in SubscriberIdArguments,
          walletAddress \in SubscriberWalletArguments,
          subscriptionPeriod \in SubscriptionPeriodArguments :
          LET what == PaymentSubscriptionCheck(contributorId, walletAddress,
                                               subscriptionPeriod)
              args == <<contributorId, walletAddress, subscriptionPeriod>>
          IN  IF what # ""
              THEN call' = [op |-> "PaymentSubscription", args |-> args,
                            status |-> "threw",
                            exception |-> [type |-> "std::invalid_argument",
                                           what |-> what]]
              ELSE call' = [op |-> "PaymentSubscription", args |-> args,
                            status |-> "returned",
                            object |-> PaymentSubscription(contributorId, walletAddress,
                                                           subscriptionPeriod, now)]
    /\ UNCHANGED <<m_transactions, capacity, buffer, threads, uuidCount, terminated,
                   m_contributions, ledgerVars, schedulerVars, callerVars,
                   metricsVars,
                   lifetimeVars>>

\* isPaymentDue with the comparison turned round
isPaymentDueInverted(subscription) == now < subscription.nextPaymentDate

\* now >= m_nextPaymentDate
isPaymentDue(subscription) == now >= subscription.nextPaymentDate

\* the position of the subscription of contributorId (0: end())
find_subscription(subscriptions, contributorId) ==
    IF \E i \in 1..Len(subscriptions) : subscriptions[i].contributorId = contributorId
    THEN CHOOSE i \in 1..Len(subscriptions) :
            /\ subscriptions[i].contributorId = contributorId
            /\ \A j \in 1..(i - 1) : subscriptions[j].contributorId # contributorId
    ELSE 0

\* m_subscriptions.erase(it)
erase(subscriptions, i) ==
    SubSeq(subscriptions, 1, i - 1) \o SubSeq(subscriptions, i + 1, Len(subscriptions))

\* addSubscription that always appends
addSubscriptionAppends(subscription) ==
    /\ ControlReady
    /\ m_subscriptions' = Append(m_subscriptions, subscription)
    /\ call' = [op |-> "addSubscription", args |-> <<subscription>>,
                status |-> "returned"]
    /\ UNCHANGED <<m_transactions, capacity, buffer, threads, uuidCount, terminated,
                   m_contributions, ledgerVars, now,
                   callerVars,
                   metricsVars,
                   lifetimeVars>>

addSubscription(subscription) ==
    /\ ControlReady
    /\ LET it == find_subscription(m_subscriptions, subscription.contributorId)
       IN  IF it # 0
           THEN m_subscriptions' = [m_subscriptions EXCEPT ![it] = subscription]
           ELSE m_subscriptions' = Append(m_subscriptions, subscription)
    /\ call' = [op |-> "addSubscription", args |-> <<subscription>>,
                status |-> "returned"]
    /\ UNCHANGED <<m_transactions, capacity, buffer, threads, uuidCount, terminated,
                   m_contributions, ledgerVars, now,
                   callerVars,
                   metricsVars,
                   lifetimeVars>>

\* the caller constructs a subscription and adds it
AddSubscription ==
    \E contributorId \in SubscriberIds, walletAddress \in SubscriberWallets,
       subscriptionPeriod \in SubscriptionPeriods :
        /\ SubscriptionArgumentsValid(contributorId, walletAddress, subscriptionPeriod)
        /\ addSubscription(PaymentSubscription(contributorId, walletAddress,
                                               subscriptionPeriod, now))

\* removeSubscription that erases the first subscription when the id is unknown
removeSubscriptionFirst(contributorId) ==
    /\ ControlReady
    /\ LET it == find_subscription(m_subscriptions, contributorId)
       IN  IF it # 0 \/ Len(m_subscriptions) > 0
           THEN /\ m_subscriptions' = erase(m_subscriptions, IF it # 0 THEN it ELSE 1)
                /\ call' = [op |-> "removeSubscription", args |-> <<contributorId>>,
                            status |-> "returned", result |-> TRUE]
           ELSE /\ UNCHANGED m_subscriptions
                /\ call' = [op |-> "removeSubscription", args |-> <<contributorId>>,
                            status |-> "returned", result |-> FALSE]
    /\ UNCHANGED <<m_transactions, capacity, buffer, threads, uuidCount, terminated,
                   m_contributions, ledgerVars, now,
                   callerVars,
                   metricsVars,
                   lifetimeVars>>

removeSubscription(contributorId) ==
    /\ ControlReady
    /\ LET it == find_subscription(m_subscriptions, contributorId)
       IN  IF it # 0
           THEN /\ m_subscriptions' = erase(m_subscriptions, it)
                /\ call' = [op |-> "removeSubscription", args |-> <<contributorId>>,
                            status |-> "returned", result |-> TRUE]
           ELSE /\ UNCHANGED m_subscriptions
                /\ call' = [op |-> "removeSubscription", args |-> <<contributorId>>,
                            status |-> "returned", result |-> FALSE]
    /\ UNCHANGED <<m_transactions, capacity, buffer, threads, uuidCount, terminated,
                   m_contributions, ledgerVars, now,
                   callerVars,
                   metricsVars,
                   lifetimeVars>>

RemoveSubscription == \E contributorId \in RemovedIds : removeSubscription(contributorId)

\* processDuePayments paying 0.002 BTC
DoubledPlaceholderAmount == 1 + 1

\* the amount processDuePayments pays (0.001 BTC), in units of 0.001 BTC
PlaceholderAmount == 1
\* the source wallet processPayment pays from
PlaceholderSourceWallet == "1A1zP1eP5QGefi2DMPTfTL5SLmv7DivfNa"

\* the engine and the subscriptions as processDuePayments finds them
Start ==
    [transactions |-> m_transactions, capacity |-> capacity, buffer |-> buffer,
     threads |-> threads, uuidCount |-> uuidCount,
     subscriptions |-> m_subscriptions, count |-> 0]

\* the new date processPayment sets, counted from the date that was due
NextPaymentDateFromDue(subscription) ==
    subscription.nextPaymentDate + subscription.subscriptionPeriod

\* the new date processPayment sets
NextPaymentDate(subscription) == now + subscription.subscriptionPeriod

\* subscription.processPayment(m_paymentManager, amount) on the i-th
\* subscription of s, count++ when it returns true: sendPayment stores the
\* record and starts the worker, or throws and processPayment returns false
processPayment(s, i, amount) ==
    LET subscription == s.subscriptions[i]
        transaction ==
            [NewTransaction(PlaceholderSourceWallet, subscription.walletAddress,
                            amount, subscription.contributorId)
                EXCEPT !.transactionId = generateUUID(s.uuidCount + 1)]
    IN  IF sendPaymentCheck(PlaceholderSourceWallet, subscription.walletAddress,
                            amount) # ""
        THEN s
        ELSE [transactions  |-> push_back(s.transactions, transaction),
              capacity      |-> IF Len(s.transactions) = s.capacity
                                THEN GrownCapacity(Len(s.transactions))
                                ELSE s.capacity,
              buffer        |-> IF Len(s.transactions) = s.capacity
                                THEN s.buffer + 1 ELSE s.buffer,
              threads       |-> Append(s.threads, NewThread(transaction, "returns")),
              uuidCount     |-> s.uuidCount + 1,
              subscriptions |-> [s.subscriptions EXCEPT
                                    ![i].nextPaymentDate = NextPaymentDate(subscription)],
              count         |-> s.count + 1]

\* what makes sendPayment throw although its argument checks pass: the
\* std::thread constructor unable to start a thread
SendFailures == {"std::system_error"}

\* what sendPayment has done when the std::thread constructor throws: the id
\* is drawn and the record is stored; no worker runs
sendPaymentAborted(s, transaction, failure) ==
    IF failure \notin SendFailures
    THEN s
    ELSE [s EXCEPT !.transactions = push_back(s.transactions, transaction),
                   !.capacity = IF Len(s.transactions) = s.capacity
                                THEN GrownCapacity(Len(s.transactions))
                                ELSE s.capacity,
                   !.buffer = IF Len(s.transactions) = s.capacity
                              THEN s.buffer + 1 ELSE s.buffer,
                   !.uuidCount = s.uuidCount + 1]

\* processPaymentThrows with the date advanced and the payment counted all the same
processPaymentThrowsAdvances(s, i, amount, failure) ==
    LET subscription == s.subscriptions[i]
        transaction ==
            [NewTransaction(PlaceholderSourceWallet, subscription.walletAddress,
                            amount, subscription.contributorId)
                EXCEPT !.transactionId = generateUUID(s.uuidCount + 1)]
        aborted == sendPaymentAborted(s, transaction, failure)
    IN  [aborted EXCEPT !.subscriptions[i].nextPaymentDate = NextPaymentDate(subscription),
                        !.count = s.count + 1]

\* subscription.processPayment(m_paymentManager, amount) on the i-th
\* subscription of s when sendPayment throws after its checks: the catch block
\* returns false, m_nextPaymentDate is not assigned, count is not incremented
processPaymentThrows(s, i, amount, failure) ==
    LET subscription == s.subscriptions[i]
        transaction ==
            [NewTransaction(PlaceholderSourceWallet, subscription.walletAddress,
                            amount, subscription.contributorId)
                EXCEPT !.transactionId = generateUUID(s.uuidCount + 1)]
    IN  sendPaymentAborted(s, transaction, failure)

\* the loop of processDuePayments from the i-th subscription on; outcome[i]
\* tells how the sendPayment for the i-th subscription ends
RECURSIVE processDueFrom(_, _, _)
processDueFrom(s, i, outcome) ==
    IF i > Len(s.subscriptions)
    THEN s
    ELSE IF isPaymentDue(s.subscriptions[i])
    THEN processDueFrom(
            IF outcome[i] = "returns"
            THEN processPayment(s, i, PlaceholderAmount)
            ELSE processPaymentThrows(s, i, PlaceholderAmount, outcome[i]),
            i + 1, outcome)
    ELSE processDueFrom(s, i + 1, outcome)

\* every sendPayment of the call returns
AllReturn == [i \in 1..Len(m_subscriptions) |-> "returns"]

processDuePayments ==
    /\ ControlReady
    /\ LET s == processDueFrom(Start, 1, AllReturn)
       IN  /\ Len(s.transactions) <= MaxPayments
           /\ m_transactions' = s.transactions
           /\ capacity' = s.capacity
           /\ buffer' = s.buffer
           /\ threads' = s.threads
           /\ uuidCount' = s.uuidCount
           /\ m_subscriptions' = s.subscriptions
           /\ call' = [op |-> "processDuePayments", status |-> "returned",
                       result |-> s.count]
    /\ UNCHANGED <<terminated, m_contributions, ledgerVars, now,
                   callerVars,
                   metricsVars,
                   lifetimeVars>>

\* processDuePayments with the sendPayment of at least one due subscription
\* throwing
processDuePaymentsSendFails ==
    /\ ControlReady
    /\ \E outcome \in [1..Len(m_subscriptions) -> {"returns"} \cup SendFailures] :
          /\ \A i \in 1..Len(m_subscriptions) :
                ~isPaymentDue(m_subscriptions[i]) => outcome[i] = "returns"
          /\ \E i \in 1..Len(m_subscriptions) : outcome[i] # "returns"
          /\ LET s == processDueFrom(Start, 1, outcome)
             IN  /\ Len(s.transactions) <= MaxPayments
                 /\ m_transactions' = s.transactions
                 /\ capacity' = s.capacity
                 /\ buffer' = s.buffer
                 /\ threads' = s.threads
                 /\ uuidCount' = s.uuidCount
                 /\ m_subscriptions' = s.subscriptions
                 /\ call' = [op |-> "processDuePayments", status |-> "returned",
                             result |-> s.count, outcome |-> outcome]
    /\ UNCHANGED <<terminated, m_contributions, ledgerVars, now,
                   callerVars,
                   metricsVars,
                   lifetimeVars>>

\* a day passes
Tick ==
    /\ now < MaxNow
    /\ now' = now + 1
    /\ UNCHANGED <<m_transactions, capacity, buffer, threads, call, uuidCount,
                   terminated, m_contributions, ledgerVars, m_subscriptions,
                   callerVars,
                   metricsVars,
                   lifetimeVars>>

-----------------------------------------------------------------------------
(* metrics.cpp: the six evaluators, MetricEvaluatorFactory, MetricsEvaluator *)

(* double arithmetic on the scores, as exact fractions num / den with den > 0 *)
RECURSIVE gcd(_, _)
gcd(a, b) == IF b = 0 THEN a ELSE gcd(b, a % b)

Fraction(n, d) ==
    LET g == gcd(IF n < 0 THEN -n ELSE n, d)
    IN  [num |-> n \div g, den |-> d \div g]

Zero == Fraction(0, 1)
One == Fraction(1, 1)
Plus(a, b) == Fraction(a.num * b.den + b.num * a.den, a.den * b.den)
Minus(a, b) == Fraction(a.num * b.den - b.num * a.den, a.den * b.den)
Times(a, b) == Fraction(a.num * b.num, a.den * b.den)
\* a / b for b > 0
Over(a, b) == Fraction(a.num * b.den, a.den * b.num)
Less(a, b) == a.num * b.den < b.num * a.den
\* std::min(a, b), std::max(a, b), std::abs(a)
min(a, b) == IF Less(b, a) THEN b ELSE a
max(a, b) == IF Less(a, b) THEN b ELSE a
abs(a) == IF a.num < 0 THEN Fraction(-a.num, a.den) ELSE a

(* A code fragment is represented by what the scanning loops and the regex *)
(* searches of the evaluators take from the string: its length, its lines, *)
(* and the counts of the matches.                                          *)
EmptyCode ==
    [length |-> 0, lines |-> 0, emptyLines |-> 0, totalLineLength |-> 0,
     maxNestingDepth |-> 0, symbolCount |-> 0,
     functionCalls |-> 0, controlStructures |-> 0,
     hasInconsistentIndentation |-> FALSE, sameLine |-> 0, nextLine |-> 0,
     commentLines |-> 0, commentWords |-> 0,
     testIndicators |-> 0, docIndicators |-> 0, refIndicators |-> 0,
     advancedFeatures |-> 0, patternIndicators |-> 0, complexityIndicators |-> 0]

\* two short lines with one call: line score above 1
ShortCode ==
    [EmptyCode EXCEPT !.length = 22, !.lines = 2, !.totalLineLength = 20,
                      !.symbolCount = 2, !.functionCalls = 1]

\* a well kept fragment: every score inside [0, 1]
TidyCode ==
    [EmptyCode EXCEPT !.length = 250, !.lines = 10, !.emptyLines = 2,
                      !.totalLineLength = 240, !.maxNestingDepth = 2,
                      !.symbolCount = 25, !.functionCalls = 5,
                      !.controlStructures = 2, !.sameLine = 2,
                      !.commentLines = 3, !.commentWords = 12,
                      !.testIndicators = 2, !.docIndicators = 3,
                      !.refIndicators = 1, !.advancedFeatures = 1,
                      !.patternIndicators = 1]

\* long, deeply nested, heavily commented lines: raw scores below 0 and above 1
DenseCode ==
    [EmptyCode EXCEPT !.length = 304, !.lines = 4, !.emptyLines = 1,
                      !.totalLineLength = 300, !.maxNestingDepth = 6,
                      !.symbolCount = 90, !.functionCalls = 18,
                      !.controlStructures = 6,
                      !.hasInconsistentIndentation = TRUE,
                      !.sameLine = 2, !.nextLine = 1,
                      !.commentLines = 3, !.commentWords = 30,
                      !.testIndicators = 6, !.docIndicators = 12,
                      !.refIndicators = 3, !.advancedFeatures = 4,
                      !.patternIndicators = 3, !.complexityIndicators = 2]

\* three plain lines without comments or braces
PlainCode ==
    [EmptyCode EXCEPT !.length = 152, !.lines = 3, !.totalLineLength = 150,
                      !.maxNestingDepth = 1, !.symbolCount = 40,
                      !.functionCalls = 2]

CodeFragments == {EmptyCode, ShortCode, TidyCode, DenseCode, PlainCode}

\* result.value = std::min(1.0, std::max(0.0, value))
Clamp(value) == min(One, max(Zero, value))

ImpactEvaluator(code) ==
    LET maxExpectedCount == 20
        rawScore == Fraction(code.functionCalls + code.controlStructures,
                             maxExpectedCount)
    IN  [type |-> "IMPACT",
         value |-> Clamp(rawScore),
         rationale |-> <<"Impact score based on", code.functionCalls,
                         code.controlStructures>>]

\* the scores of SimplicityEvaluator before they are added up
SimplicityScores(code) ==
    LET totalLines == code.lines - code.emptyLines
        avgLineLength == IF totalLines > 0
                         THEN Fraction(code.totalLineLength, totalLines) ELSE Zero
        symbolDensity == IF code.length > 0
                         THEN Fraction(code.symbolCount, code.length) ELSE Zero
    IN  [avgLineLength |-> avgLineLength,
         lineScore |-> max(Zero, Minus(One, Over(Minus(avgLineLength, Fraction(40, 1)),
                                                 Fraction(40, 1)))),
         nestingScore |-> max(Zero, Minus(One, Fraction(code.maxNestingDepth, 5))),
         symbolScore |-> max(Zero, Minus(One, Over(abs(Minus(symbolDensity,
                                                             Fraction(1, 10))),
                                                   Fraction(1, 10))))]

\* SimplicityEvaluator without the final std::min / std::max
SimplicityEvaluatorUnclamped(code) ==
    LET scores == SimplicityScores(code)
    IN  [type |-> "SIMPLICITY",
         value |-> Over(Plus(Plus(scores.lineScore, scores.nestingScore),
                             scores.symbolScore), Fraction(3, 1)),
         rationale |-> <<"Simplicity score based on", scores.avgLineLength,
                         code.maxNestingDepth>>]

SimplicityEvaluator(code) ==
    LET scores == SimplicityScores(code)
    IN  [type |-> "SIMPLICITY",
         value |-> Clamp(Over(Plus(Plus(scores.lineScore, scores.nestingScore),
                                   scores.symbolScore), Fraction(3, 1))),
         rationale |-> <<"Simplicity score based on", scores.avgLineLength,
                         code.maxNestingDepth>>]

CleanessEvaluator(code) ==
    LET consistentBraceStyle ==
            /\ (code.sameLine = 0 \/ code.nextLine = 0)
            /\ code.sameLine + code.nextLine > 0
        indentScore == IF code.hasInconsistentIndentation THEN Zero ELSE One
        braceScore == IF consistentBraceStyle THEN One ELSE Fraction(1, 2)
        whitespaceProportion == IF code.lines > 0
                                THEN Fraction(code.emptyLines, code.lines) ELSE Zero
        whitespaceScore ==
            min(One, max(Zero, Minus(One, Over(abs(Minus(whitespaceProportion,
                                                         Fraction(1, 5))),
                                               Fraction(1, 5)))))
    IN  [type |-> "CLEANNESS",
         value |-> Clamp(Plus(Plus(Times(indentScore, Fraction(1, 2)),
                                   Times(braceScore, Fraction(3, 10))),
                              Times(whitespaceScore, Fraction(1, 5)))),
         rationale |-> <<"Cleanness score based on indentation consistency, brace style consistency, and whitespace usage.">>]

CommentEvaluator(code) ==
    LET commentDensity == IF code.lines > 0
                          THEN Fraction(code.commentLines, code.lines) ELSE Zero
        avgCommentLength == IF code.commentLines > 0
                            THEN Fraction(code.commentWords, code.commentLines)
                            ELSE Zero
        densityScore == max(Zero, Minus(One, Over(abs(Minus(commentDensity,
                                                            Fraction(3, 10))),
                                                  Fraction(3, 10))))
        lengthScore == min(One, Over(avgCommentLength, Fraction(8, 1)))
    IN  [type |-> "COMMENT",
         value |-> Clamp(Plus(Times(densityScore, Fraction(6, 10)),
                              Times(lengthScore, Fraction(4, 10)))),
         rationale |-> <<"Comment score based on", commentDensity, avgCommentLength>>]

CreditabilityEvaluator(code) ==
    LET testScore == min(One, Fraction(code.testIndicators, 5))
        docScore == min(One, Fraction(code.docIndicators, 10))
        refScore == min(One, Fraction(code.refIndicators, 2))
    IN  [type |-> "CREDITABILITY",
         value |-> Clamp(Plus(Plus(Times(testScore, Fraction(4, 10)),
                                   Times(docScore, Fraction(4, 10))),
                              Times(refScore, Fraction(2, 10)))),
         rationale |-> <<"Creditability score based on", code.testIndicators,
                         code.docIndicators, code.refIndicators>>]

\* NoveltyEvaluator with a score that follows the clock
NoveltyEvaluatorTimed(code) ==
    [type |-> "NOVELTY",
     value |-> Clamp(Fraction(code.complexityIndicators + now, 10)),
     rationale |-> <<"Novelty score based on", code.advancedFeatures,
                     code.patternIndicators, code.complexityIndicators>>]

NoveltyEvaluator(code) ==
    LET advancedScore == min(One, Fraction(code.advancedFeatures, 3))
        patternScore == min(One, Fraction(code.patternIndicators, 2))
        complexityScore == min(One, Fraction(code.complexityIndicators, 1))
    IN  [type |-> "NOVELTY",
         value |-> Clamp(Plus(Plus(Times(advancedScore, Fraction(4, 10)),
                                   Times(patternScore, Fraction(4, 10))),
                              Times(complexityScore, Fraction(2, 10)))),
         rationale |-> <<"Novelty score based on", code.advancedFeatures,
                         code.patternIndicators, code.complexityIndicators>>]

\* enum class MetricType, in declaration order
MetricTypeOrder ==
    <<"IMPACT", "SIMPLICITY", "CLEANNESS", "COMMENT", "CREDITABILITY", "NOVELTY">>

\* createAll with the first two evaluators in the other order
createAllSwapped ==
    <<"SimplicityEvaluator", "ImpactEvaluator", "CleanessEvaluator",
      "CommentEvaluator", "CreditabilityEvaluator", "NoveltyEvaluator">>

\* MetricEvaluatorFactory::createAll(): the evaluators, in push_back order
createAll ==
    <<"ImpactEvaluator", "SimplicityEvaluator", "CleanessEvaluator",
      "CommentEvaluator", "CreditabilityEvaluator", "NoveltyEvaluator">>

\* evaluator->getType()
getType(evaluator) ==
    CASE evaluator = "ImpactEvaluator" -> "IMPACT"
      [] evaluator = "SimplicityEvaluator" -> "SIMPLICITY"
      [] evaluator = "CleanessEvaluator" -> "CLEANNESS"
      [] evaluator = "CommentEvaluator" -> "COMMENT"
      [] evaluator = "CreditabilityEvaluator" -> "CREDITABILITY"
      [] evaluator = "NoveltyEvaluator" -> "NOVELTY"

\* evaluator->evaluate(code): the virtual call
evaluate(evaluator, code) ==
    CASE evaluator = "ImpactEvaluator" -> ImpactEvaluator(code)
      [] evaluator = "SimplicityEvaluator" -> SimplicityEvaluator(code)
      [] evaluator = "CleanessEvaluator" -> CleanessEvaluator(code)
      [] evaluator = "CommentEvaluator" -> CommentEvaluator(code)
      [] evaluator = "CreditabilityEvaluator" -> CreditabilityEvaluator(code)
      [] evaluator = "NoveltyEvaluator" -> NoveltyEvaluator(code)

\* MetricsEvaluator::evaluateAll(code)
evaluateAll(code) ==
    [i \in 1..Len(m_evaluators) |-> evaluate(m_evaluators[i], code)]

\* the loop of MetricsEvaluator::calculateValue: sum += eval.value
RECURSIVE SumOfScores(_)
SumOfScores(evaluations) ==
    IF evaluations = <<>>
    THEN Zero
    ELSE Plus(Head(evaluations).value, SumOfScores(Tail(evaluations)))

\* calculateValueOfCode without the division
calculateValueOfCodeSum(code) ==
    LET evaluations == evaluateAll(code)
    IN  IF evaluations = <<>> THEN Zero ELSE SumOfScores(evaluations)

\* MetricsEvaluator::calculateValue(code)
calculateValueOfCode(code) ==
    LET evaluations == evaluateAll(code)
    IN  IF evaluations = <<>>
        THEN Zero
        ELSE Over(SumOfScores(evaluations), Fraction(Len(evaluations), 1))

\* evaluator.evaluateAll(code)
EvaluateAll ==
    /\ ControlReady
    /\ \E code \in CodeFragments :
          LET results == evaluateAll(code)
          IN  /\ call' = [op |-> "evaluateAll", args |-> <<code>>,
                          status |-> "returned", result |-> results]
              /\ firstEvaluateAll' =
                    IF \E first \in firstEvaluateAll : first.code = code
                    THEN firstEvaluateAll
                    ELSE firstEvaluateAll \cup
                            {[code |-> code, at |-> now, result |-> results]}
    /\ UNCHANGED <<m_transactions, capacity, buffer, threads, uuidCount, terminated,
                   m_contributions, ledgerVars, schedulerVars, callerVars,
                   m_evaluators,
                   lifetimeVars>>

\* evaluator.calculateValue(code)
CalculateValueOfCode ==
    /\ ControlReady
    /\ \E code \in CodeFragments :
          call' = [op |-> "MetricsEvaluator::calculateValue", args |-> <<code>>,
                   status |-> "returned", result |-> calculateValueOfCode(code)]
    /\ UNCHANGED <<m_transactions, capacity, buffer, threads, uuidCount, terminated,
                   m_contributions, ledgerVars, schedulerVars, callerVars,
                   metricsVars,
                   lifetimeVars>>

-----------------------------------------------------------------------------

Init ==
    /\ m_transactions = <<>>
    /\ capacity = 0
    /\ buffer = 0
    /\ threads = <<>>
    /\ call = Idle
    /\ uuidCount = 0
    /\ terminated = FALSE
    /\ m_contributions = <<>>
    /\ m_payments = <<>>
    /\ recordPaymentCalls = <<>>
    /\ now = 0
    /\ m_subscriptions = <<>>
    /\ callerContribution = <<>>
    /\ m_evaluators = createAll
    /\ firstEvaluateAll = {}
    /\ alive = TRUE

Next ==
    \/ sendPayment
    \/ Worker
    \/ ReadBegin
    \/ ReadEnd

Spec == Init /\ [][Next]_vars

NextRegistry == Register

SpecRegistry == Init /\ [][NextRegistry]_vars

NextLedger == RecordPayment

SpecLedger == Init /\ [][NextLedger]_vars

NextSubscriptions ==
    \/ AddSubscription
    \/ RemoveSubscription
    \/ processDuePayments
    \/ Tick

SpecSubscriptions == Init /\ [][NextSubscriptions]_vars

NextSubscriptionFailures ==
    \/ AddSubscription
    \/ processDuePayments
    \/ processDuePaymentsSendFails
    \/ Tick

SpecSubscriptionFailures == Init /\ [][NextSubscriptionFailures]_vars

NextConstructors ==
    \/ CodeContributionConstructor
    \/ PaymentSubscriptionConstructor
    \/ Tick

SpecConstructors == Init /\ [][NextConstructors]_vars

NextCaller ==
    \/ DeclareContribution
    \/ AttachEvaluation
    \/ CalculateValue
    \/ RegisterCaller

SpecCaller == Init /\ [][NextCaller]_vars

NextMetrics ==
    \/ EvaluateAll
    \/ CalculateValueOfCode
    \/ Tick

SpecMetrics == Init /\ [][NextMetrics]_vars

NextLifetime ==
    \/ sendPayment
    \/ Worker
    \/ Destroy
    \/ \E w \in 1..MaxSends : WorkerUseAfterFree(w)

SpecLifetime == Init /\ [][NextLifetime]_vars

-----------------------------------------------------------------------------
(* Registry claims *)

Intersect(a, b) == a.lineStart <= b.lineEnd /\ b.lineStart <= a.lineEnd

\* C1: no two registered contributions of the same fileId have intersecting
\* closed line ranges (registerContribution rejects every intersecting range,
\* the one strictly containing an existing range included).
C1_NoOverlap ==
    \A i, j \in 1..Len(m_contributions) :
        (i < j /\ m_contributions[i].fileId = m_contributions[j].fileId)
            => ~Intersect(m_contributions[i], m_contributions[j])

-----------------------------------------------------------------------------
(* Settlement claims *)

ThreadIds == 1..Len(threads)
IdOf(w) == threads[w].transaction.transactionId
RecordsWithId(transactions, id) ==
    {i \in 1..Len(transactions) : transactions[i].transactionId = id}

\* a sendPayment call returned its future in this step
SendReturned == Len(threads') = Len(threads) + 1

\* transactions holds the record thread w's send built (whatever its verified flag)
Holds(transactions, w) ==
    \E i \in 1..Len(transactions) :
        [transactions[i] EXCEPT !.verified = FALSE] = threads[w].transaction

\* the record of thread w is in what getTransactions and
\* getTransactionsForContribution return
Visible(w) ==
    /\ Holds(getTransactions, w)
    /\ Holds(getTransactionsForContribution(threads[w].transaction.contributionId), w)

\* C2: a successful sendPayment appends exactly one record, with verified =
\* FALSE, before it returns, and until the worker of that send completes the
\* record is in the results of getTransactions and getTransactionsForContribution.
C2_RecordStoredAtSend ==
    [][ /\ SendReturned =>
            /\ Len(m_transactions') = Len(m_transactions) + 1
            /\ SubSeq(m_transactions', 1, Len(m_transactions)) = m_transactions
            /\ m_transactions'[Len(m_transactions')].verified = FALSE
            /\ m_transactions'[Len(m_transactions')].transactionId =
                  threads'[Len(threads')].transaction.transactionId
        /\ ~SendReturned => Len(m_transactions') = Len(m_transactions)
        /\ \A w \in 1..Len(threads') : threads'[w].pc # "done" => Visible(w)'
      ]_vars

C2_Witness ==
    /\ Len(m_transactions) = 2
    /\ threads[1].pc = "done"
    /\ threads[2].pc = "update"
    /\ ~m_transactions[2].verified

\* C3: once the worker of a send has run to completion, the record created by
\* that send has verified = TRUE.
C3_CompletedImpliesVerified ==
    \A w \in ThreadIds : threads[w].pc = "done" => verifyPayment(IdOf(w))

\* C4: for a send with a callback, the callback is invoked exactly once and the
\* handle is resolved exactly once: never more, and not fewer once the worker
\* or the process has come to its end.
C4_ExactlyOnce ==
    \A w \in ThreadIds :
        threads[w].callback # "none" =>
            /\ threads[w].invocations <= 1
            /\ (threads[w].pc = "done" \/ terminated) =>
                  (threads[w].invocations = 1 /\ threads[w].promise = "ready")

\* C5: whenever the handle is resolved it carries the id of the record stored by
\* the send, verifyPayment of that id is TRUE, and the callback (when one was
\* given) has been invoked.
C5_ResolvedImpliesVerified ==
    \A w \in ThreadIds :
        threads[w].promise = "ready" =>
            /\ threads[w].value = IdOf(w)
            /\ RecordsWithId(m_transactions, threads[w].value) # {}
            /\ verifyPayment(threads[w].value)
            /\ threads[w].callback # "none" => threads[w].invocations = 1

\* the arguments of a sendPayment call fail a precondition
WalletFails(args) ==
    ~validateBitcoinAddress(args[1]) \/ ~validateBitcoinAddress(args[2])
AmountFails(args) == args[3] <= 0

\* C6: a sendPayment whose source or destination wallet fails the address
\* check, or whose amount is <= 0, throws, leaves the transaction log as it was,
\* starts no worker and invokes no callback.
C6_FailedSendChangesNothing ==
    [][ (/\ call' # call
         /\ call'.op = "sendPayment"
         /\ (WalletFails(call'.args) \/ AmountFails(call'.args)))
        => /\ call'.status = "threw"
           /\ m_transactions' = m_transactions
           /\ threads' = threads
           /\ uuidCount' = uuidCount
      ]_vars

C6_Witness ==
    /\ call.op = "sendPayment"
    /\ call.status = "threw"
    /\ AmountFails(call.args)
    /\ Len(m_transactions) = 1
    /\ threads[1].pc = "sleep"

\* C7 as claimed: the error of a wallet failure is of another kind than the
\* error of an amount failure.
C7_DistinctKinds ==
    (call.op = "sendPayment" /\ call.status = "threw" /\ WalletFails(call.args))
        => \A amount \in Amounts :
              amount <= 0 =>
                 call.exception.type #
                    sendPaymentException(WalletA, WalletB, amount).type

\* C7 amended: both failures are a std::invalid_argument; the message tells
\* them apart: a wallet message when a wallet fails the check (the source is
\* checked first), the amount message when both wallets pass and amount <= 0.
C7_SameKindDistinctMessage ==
    (call.op = "sendPayment" /\ call.status = "threw") =>
        /\ call.exception.type = "std::invalid_argument"
        /\ ~validateBitcoinAddress(call.args[1]) =>
              call.exception.what = "Invalid source wallet address"
        /\ (validateBitcoinAddress(call.args[1]) /\ ~validateBitcoinAddress(call.args[2])) =>
              call.exception.what = "Invalid destination wallet address"
        /\ (~WalletFails(call.args) /\ AmountFails(call.args)) =>
              call.exception.what = "Payment amount must be greater than zero"

C7_Witness ==
    /\ call.op = "sendPayment"
    /\ call.status = "threw"
    /\ ~WalletFails(call.args)
    /\ AmountFails(call.args)

\* C8: a callback that raises does not bring the process down.
C8_WorkerFailureContained ==
    \A w \in ThreadIds :
        (threads[w].callback = "throws" /\ threads[w].invocations > 0) => ~terminated

\* C10: no store to a record's verified field happens while a getTransactions
\* or verifyPayment call of the control thread is in progress.
C10_NoWriteDuringRead ==
    [][ (/\ Len(m_transactions') = Len(m_transactions)
         /\ \E i \in 1..Len(m_transactions) :
               m_transactions'[i].verified # m_transactions[i].verified)
        => ~(call.status = "running" /\ call.op \in {"getTransactions", "verifyPayment"})
      ]_vars

-----------------------------------------------------------------------------
(* Transaction log claims *)

\* the fields of a record that are set at send time
ImmutableFields(t) ==
    <<t.transactionId, t.sourceWallet, t.destinationWallet, t.amount, t.timestamp,
      t.contributionId>>

\* C11: the transaction log is append-only: in every step each record stays at
\* its position with its transactionId, wallets, amount, timestamp and
\* contributionId unchanged, and its verified flag changes only from FALSE to
\* TRUE (so at most once).
C11_LogAppendOnly ==
    [][ /\ Len(m_transactions') >= Len(m_transactions)
        /\ \A i \in 1..Len(m_transactions) :
              /\ ImmutableFields(m_transactions'[i]) = ImmutableFields(m_transactions[i])
              /\ m_transactions[i].verified => m_transactions'[i].verified
      ]_vars

C11_Witness ==
    /\ Len(m_transactions) = 2
    /\ m_transactions[1].verified
    /\ m_transactions[2].verified

\* C12: a verifyPayment(id) call returns, without throwing and without changing
\* the log, the verified flag the record with that id has at that moment, and
\* FALSE when the log holds no record with that id.
C12_VerifyPaymentReportsFlag ==
    [][ (call.op = "verifyPayment" /\ call.status = "running" /\ call' # call)
        => /\ call'.op = "verifyPayment"
           /\ call'.status = "returned"
           /\ call'.args = call.args
           /\ m_transactions' = m_transactions
           /\ call'.result =
                 (\E i \in 1..Len(m_transactions) :
                     /\ m_transactions[i].transactionId = call.args[1]
                     /\ m_transactions[i].verified)
      ]_vars

C12_Witness ==
    /\ call.op = "verifyPayment"
    /\ call.status = "returned"
    /\ call.result = TRUE
    /\ Len(m_transactions) = 2
    /\ m_transactions[1].transactionId = call.args[1]
    /\ ~m_transactions[2].verified

\* the i-th record's verified flag goes from FALSE to TRUE in this step
Flipped(i) ==
    /\ i \in 1..Len(m_transactions)
    /\ ~m_transactions[i].verified
    /\ m_transactions'[i].verified

\* C14 as claimed: the step in which a record's verification completes adds the
\* record's amount to a ledger total.
C14_CompletionRecordsPayment ==
    [][ \A i \in 1..Len(m_transactions) :
           Flipped(i) =>
              \E contributor \in LedgerContributors \cup ContributionIds :
                 getTotalPaymentsForContributor(contributor)' =
                    getTotalPaymentsForContributor(contributor)
                       + m_transactions[i].amount
      ]_vars

\* C14 amended: the step in which a record's verification completes leaves the
\* ledger as it was; the settlement engine never calls recordPayment.
C14_CompletionLeavesLedger ==
    [][ (\E i \in 1..Len(m_transactions) : Flipped(i)) => m_payments' = m_payments
      ]_vars

C14_Witness ==
    /\ Len(m_transactions) >= 1
    /\ m_transactions[1].verified
    /\ threads[1].pc = "done"
    /\ \A contributor \in LedgerContributors \cup ContributionIds :
          getTotalPaymentsForContributor(contributor) = 0

-----------------------------------------------------------------------------
(* Ledger claims *)

\* the sum of the amounts of the accepted calls for a contributor
RECURSIVE SumAccepted(_, _)
SumAccepted(calls, contributor) ==
    IF calls = <<>>
    THEN 0
    ELSE SumAccepted(Tail(calls), contributor)
            + (IF Head(calls).contributor = contributor /\ Head(calls).result
               THEN Head(calls).amount ELSE 0)

\* C15: the total of every contributor is the sum of the amounts of the
\* recordPayment calls accepted for that contributor (0 when there is none),
\* and no step makes a total smaller.
C15_TotalIsSumOfAccepted ==
    [][ \A contributor \in LedgerContributors :
           /\ getTotalPaymentsForContributor(contributor)' =
                 SumAccepted(recordPaymentCalls', contributor)
           /\ getTotalPaymentsForContributor(contributor)' >=
                 getTotalPaymentsForContributor(contributor)
      ]_vars

C15_Witness ==
    /\ Len(recordPaymentCalls) = 3
    /\ ~recordPaymentCalls[2].result
    /\ getTotalPaymentsForContributor("Bob") = 3
    /\ getTotalPaymentsForContributor("Alice") = 0

\* C16: a recordPayment call with amount <= 0 returns FALSE and leaves every
\* total as it was.
C16_NonPositiveAmountRejected ==
    [][ (/\ Len(recordPaymentCalls') = Len(recordPaymentCalls) + 1
         /\ recordPaymentCalls'[Len(recordPaymentCalls')].amount <= 0)
        => /\ recordPaymentCalls'[Len(recordPaymentCalls')].result = FALSE
           /\ m_payments' = m_payments
           /\ \A contributor \in LedgerContributors :
                 getTotalPaymentsForContributor(contributor)' =
                    getTotalPaymentsForContributor(contributor)
      ]_vars

C16_Witness ==
    /\ Len(recordPaymentCalls) = 2
    /\ recordPaymentCalls[1].result
    /\ recordPaymentCalls[2].amount < 0
    /\ ~recordPaymentCalls[2].result
    /\ getTotalPaymentsForContributor(recordPaymentCalls[2].contributor) = 1

-----------------------------------------------------------------------------
(* Subscription claims *)

\* positions of the subscriptions of a contributor
SubscriptionsOf(subscriptions, contributorId) ==
    {i \in 1..Len(subscriptions) : subscriptions[i].contributorId = contributorId}

\* this step is a call of the named operation of RecurringPaymentManager
StepOf(op) ==
    /\ call'.op = op
    /\ \/ call.op # op
       \/ call' # call
       \/ m_subscriptions' # m_subscriptions
       \/ m_transactions' # m_transactions

\* C17: m_subscriptions holds at most one subscription per contributorId; an
\* addSubscription for a contributorId already present keeps the number of
\* subscriptions and puts the new subscription in the old one's place, every
\* field replaced; for a new contributorId it appends.
C17_OnePerContributor ==
    [][ /\ \A i, j \in 1..Len(m_subscriptions') :
              m_subscriptions'[i].contributorId = m_subscriptions'[j].contributorId
                 => i = j
        /\ StepOf("addSubscription") =>
              LET subscription == call'.args[1]
                  present == SubscriptionsOf(m_subscriptions, subscription.contributorId)
              IN  IF present # {}
                  THEN /\ Len(m_subscriptions') = Len(m_subscriptions)
                       /\ \A i \in 1..Len(m_subscriptions) :
                             m_subscriptions'[i] =
                                IF i \in present THEN subscription
                                ELSE m_subscriptions[i]
                  ELSE m_subscriptions' = m_subscriptions \o <<subscription>>
      ]_vars

C17_Witness ==
    /\ call.op = "addSubscription"
    /\ Len(m_subscriptions) = 2
    /\ m_subscriptions[1] = call.args[1]
    /\ m_subscriptions[1].nextPaymentDate = now + m_subscriptions[1].subscriptionPeriod
    /\ m_subscriptions[2].nextPaymentDate <= now

\* C18: removeSubscription returns TRUE and deletes exactly the subscription of
\* the given contributorId when there is one, and returns FALSE and leaves the
\* subscriptions as they were when there is none.
C18_RemoveExactlyThatOne ==
    [][ StepOf("removeSubscription") =>
           LET contributorId == call'.args[1]
           IN  IF SubscriptionsOf(m_subscriptions, contributorId) # {}
               THEN /\ call'.result = TRUE
                    /\ Len(m_subscriptions') = Len(m_subscriptions) - 1
                    /\ m_subscriptions' =
                          SelectSeq(m_subscriptions,
                                    LAMBDA x : x.contributorId # contributorId)
               ELSE /\ call'.result = FALSE
                    /\ m_subscriptions' = m_subscriptions
      ]_vars

C18_Witness ==
    /\ call.op = "removeSubscription"
    /\ call.result = TRUE
    /\ Len(m_subscriptions) = 1
    /\ m_subscriptions[1].contributorId # call.args[1]

\* the records a step appends to the log
NewRecords ==
    SubSeq(m_transactions', Len(m_transactions) + 1, Len(m_transactions'))

\* the subscriptions whose nextPaymentDate is not later than now, in list order
DueSubscriptions ==
    SelectSeq(m_subscriptions, LAMBDA x : x.nextPaymentDate <= now)

\* C19: a processDuePayments call sends nothing for, does not count and leaves
\* unchanged every subscription whose nextPaymentDate is later than now; a
\* subscription just constructed is not due; with no subscription due the call
\* returns 0 and adds no record.
C19_NotDueUntouched ==
    [][ /\ StepOf("processDuePayments") =>
              /\ Len(m_subscriptions') = Len(m_subscriptions)
              /\ \A i \in 1..Len(m_subscriptions) :
                    m_subscriptions[i].nextPaymentDate > now =>
                       /\ m_subscriptions'[i] = m_subscriptions[i]
                       /\ \A k \in 1..Len(NewRecords) :
                             NewRecords[k].contributionId #
                                m_subscriptions[i].contributorId
              /\ call'.result <= Len(DueSubscriptions)
              /\ Len(DueSubscriptions) = 0 =>
                    (call'.result = 0 /\ m_transactions' = m_transactions)
        /\ StepOf("addSubscription") => call'.args[1].nextPaymentDate > now'
      ]_vars

C19_Witness ==
    /\ call.op = "processDuePayments"
    /\ call.result = 1
    /\ Len(m_subscriptions) = 2
    /\ Len(m_transactions) = 1
    /\ m_transactions[1].timestamp = now
    /\ m_subscriptions[1].nextPaymentDate > now
    /\ m_subscriptions[1].nextPaymentDate < now + m_subscriptions[1].subscriptionPeriod
    /\ m_transactions[1].contributionId = m_subscriptions[2].contributorId

\* C20: a processDuePayments call issues, for every subscription with
\* nextPaymentDate <= now, exactly one send to the subscription's wallet, counts
\* it, and sets the subscription's nextPaymentDate to now + subscriptionPeriod,
\* however long the payment was overdue.
C20_DuePaidOnce ==
    [][ StepOf("processDuePayments") =>
           /\ SubSeq(m_transactions', 1, Len(m_transactions)) = m_transactions
           /\ Len(NewRecords) = Len(DueSubscriptions)
           /\ call'.result = Len(DueSubscriptions)
           /\ \A k \in 1..Len(DueSubscriptions) :
                 /\ NewRecords[k].destinationWallet = DueSubscriptions[k].walletAddress
                 /\ NewRecords[k].contributionId = DueSubscriptions[k].contributorId
           /\ \A i \in 1..Len(m_subscriptions) :
                 m_subscriptions[i].nextPaymentDate <= now =>
                    m_subscriptions'[i] =
                       [m_subscriptions[i] EXCEPT
                           !.nextPaymentDate =
                               now + m_subscriptions[i].subscriptionPeriod]
      ]_vars

C20_Witness ==
    /\ call.op = "processDuePayments"
    /\ call.result = 2
    /\ Len(m_transactions) = 2
    /\ m_transactions[1].destinationWallet # m_transactions[2].destinationWallet
    /\ now = MaxNow
    /\ \A i \in 1..2 :
          m_subscriptions[i].nextPaymentDate = now + m_subscriptions[i].subscriptionPeriod

\* the positions of the due subscriptions
DuePositions ==
    {i \in 1..Len(m_subscriptions) : m_subscriptions[i].nextPaymentDate <= now}

\* C21: when the sendPayment for a due subscription throws during
\* processDuePayments, that subscription keeps its nextPaymentDate (it stays
\* due) and is not counted, and every other due subscription is processed all
\* the same: it is paid, counted, and gets its new date.
C21_FailureIsolated ==
    [][ (StepOf("processDuePayments") /\ "outcome" \in DOMAIN call') =>
           LET outcome == call'.outcome
               failed == {i \in DuePositions : outcome[i] # "returns"}
           IN  /\ Len(m_subscriptions') = Len(m_subscriptions)
               /\ \A i \in failed :
                     /\ m_subscriptions'[i] = m_subscriptions[i]
                     /\ m_subscriptions'[i].nextPaymentDate <= now'
               /\ \A i \in DuePositions \ failed :
                     /\ m_subscriptions'[i].nextPaymentDate =
                           now + m_subscriptions[i].subscriptionPeriod
                     /\ \E k \in 1..Len(NewRecords) :
                           /\ NewRecords[k].contributionId =
                                 m_subscriptions[i].contributorId
                           /\ \E w \in 1..Len(threads') :
                                 threads'[w].transaction.transactionId =
                                    NewRecords[k].transactionId
               /\ call'.result = Cardinality(DuePositions \ failed)
      ]_vars

C21_Witness ==
    /\ call.op = "processDuePayments"
    /\ "outcome" \in DOMAIN call
    /\ Len(m_subscriptions) = 2
    /\ call.outcome[1] = "std::system_error"
    /\ call.outcome[2] = "returns"
    /\ call.result = 1
    /\ m_subscriptions[1].nextPaymentDate <= now
    /\ m_subscriptions[2].nextPaymentDate = now + m_subscriptions[2].subscriptionPeriod
    /\ Len(threads) = 1

\* the amounts a caller may want processDuePayments to pay, in units of 0.001 BTC
AmountsPerPayment == {1, 2}

\* C22 as claimed: the records a processDuePayments call stores carry the
\* amount the caller wants paid, whichever it is.
C22_CarriesCallerAmount ==
    [][ StepOf("processDuePayments") =>
           \A amountPerPayment \in AmountsPerPayment :
              \A k \in 1..Len(NewRecords) : NewRecords[k].amount = amountPerPayment
      ]_vars

\* C22 amended: processDuePayments takes no amount; every record it stores
\* carries 0.001 BTC.
C22_CarriesPlaceholderAmount ==
    [][ StepOf("processDuePayments") =>
           /\ "args" \notin DOMAIN call'
           /\ \A k \in 1..Len(NewRecords) : NewRecords[k].amount = 1
      ]_vars

C22_Witness ==
    /\ call.op = "processDuePayments"
    /\ call.result = 1
    /\ Len(m_transactions) = 2
    /\ m_transactions[2].timestamp = now
    /\ m_transactions[1].timestamp < now
    /\ \A k \in 1..2 : m_transactions[k].amount = 1

-----------------------------------------------------------------------------
(* Constructor claims *)

\* this step is a call of the named constructor
ConstructorStep(op) == call'.op = op /\ (call.op # op \/ call' # call)

\* C23: the PaymentSubscription constructor throws std::invalid_argument when
\* contributorId is empty, the wallet address fails validateBitcoinAddress, or
\* subscriptionPeriod <= 0; otherwise it returns a subscription with the
\* arguments as its fields and nextPaymentDate = creation time + period days.
C23_SubscriptionConstructor ==
    [][ ConstructorStep("PaymentSubscription") =>
           LET contributorId == call'.args[1]
               walletAddress == call'.args[2]
               subscriptionPeriod == call'.args[3]
           IN  IF \/ contributorId = ""
                  \/ ~validateBitcoinAddress(walletAddress)
                  \/ subscriptionPeriod <= 0
               THEN /\ call'.status = "threw"
                    /\ call'.exception.type = "std::invalid_argument"
               ELSE /\ call'.status = "returned"
                    /\ call'.object.contributorId = contributorId
                    /\ call'.object.walletAddress = walletAddress
                    /\ call'.object.subscriptionPeriod = subscriptionPeriod
                    /\ call'.object.nextPaymentDate = now + subscriptionPeriod
      ]_vars

C23_Witness ==
    /\ call.op = "PaymentSubscription"
    /\ call.status = "returned"
    /\ now = 1
    /\ call.args[3] = 2
    /\ call.object.nextPaymentDate = 3

\* C24: the CodeContribution constructor throws std::invalid_argument exactly
\* when contributor is empty, fileId is empty, or lineStart > lineEnd; every
\* object it returns, and so every object handed to registerContribution, has
\* a non-empty contributor, a non-empty fileId and lineStart <= lineEnd.
C24_ContributionConstructor ==
    /\ call.op = "CodeContribution" =>
          LET contributor == call.args[1]
              fileId == call.args[2]
              lineStart == call.args[3]
              lineEnd == call.args[4]
          IN  IF contributor = "" \/ fileId = "" \/ lineStart > lineEnd
              THEN /\ call.status = "threw"
                   /\ call.exception.type = "std::invalid_argument"
              ELSE /\ call.status = "returned"
                   /\ call.object.contributor = contributor
                   /\ call.object.fileId = fileId
                   /\ call.object.lineStart = lineStart
                   /\ call.object.lineEnd = lineEnd
    /\ \A c \in CodeContributions :
          c.contributor # "" /\ c.fileId # "" /\ c.lineStart <= c.lineEnd

C24_Witness ==
    /\ call.op = "CodeContribution"
    /\ call.status = "threw"
    /\ call.args[1] # ""
    /\ call.args[2] = ""
    /\ call.args[3] <= call.args[4]

-----------------------------------------------------------------------------
(* Evaluation claims *)

\* this step is an addMetricEvaluation call on the caller's object
AttachStep ==
    /\ call'.op = "addMetricEvaluation"
    /\ \/ call.op # "addMetricEvaluation"
       \/ call' # call
       \/ callerContribution' # callerContribution

\* the positions in evaluations that hold an evaluation of the given type
PositionsOf(evaluations, type) ==
    {i \in 1..Len(evaluations) : evaluations[i].type = type}

\* C25: after every addMetricEvaluation the contribution holds at most one
\* evaluation per MetricType, the one of the attached type is the evaluation
\* just attached (it replaces the earlier one, the number of evaluations does
\* not grow), the evaluations of the other types are the ones held before, and
\* the call returns (it never fails).
C25_ReplaceByKind ==
    [][ AttachStep =>
           LET evaluation == call'.args[1]
               before == callerContribution[1].m_evaluations
               after == callerContribution'[1].m_evaluations
           IN  /\ call'.status = "returned"
               /\ \A type \in AllMetricTypes :
                     Cardinality(PositionsOf(after, type)) <= 1
               /\ \A i \in PositionsOf(after, evaluation.type) : after[i] = evaluation
               /\ PositionsOf(after, evaluation.type) # {}
               /\ \A type \in AllMetricTypes \ {evaluation.type} :
                     {after[i] : i \in PositionsOf(after, type)} =
                        {before[i] : i \in PositionsOf(before, type)}
               /\ Len(after) = IF PositionsOf(before, evaluation.type) = {}
                               THEN Len(before) + 1 ELSE Len(before)
      ]_vars

C25_Witness ==
    /\ call.op = "addMetricEvaluation"
    /\ call.args[1].type = "IMPACT"
    /\ call.args[1].value = 95
    /\ callerContribution # <<>>
    /\ Len(callerContribution[1].m_evaluations) = 2
    /\ callerContribution[1].m_evaluations[1] = call.args[1]
    /\ callerContribution[1].m_evaluations[2].type = "SIMPLICITY"

\* the sum of the values held for the given kinds
RECURSIVE SumOverKinds(_, _)
SumOverKinds(evaluations, kinds) ==
    IF kinds = {}
    THEN 0
    ELSE LET k == CHOOSE x \in kinds : TRUE
             i == CHOOSE j \in 1..Len(evaluations) : evaluations[j].type = k
         IN  evaluations[i].value + SumOverKinds(evaluations, kinds \ {k})

\* value is the mean of the evaluations: the sum of the values held, one per
\* kind, over the number of distinct kinds; 0 when there is none
IsMean(value, evaluations) ==
    LET kinds == {evaluations[i].type : i \in 1..Len(evaluations)}
    IN  IF kinds = {}
        THEN value.num = 0
        ELSE /\ value.den > 0
             /\ value.num * Cardinality(kinds) =
                   value.den * SumOverKinds(evaluations, kinds)

RegisterStep ==
    /\ call'.op = "registerContribution"
    /\ \/ call.op # "registerContribution"
       \/ call' # call
       \/ m_contributions' # m_contributions

\* the caller's object has just been registered
CallerJustRegistered ==
    /\ call.op = "registerContribution"
    /\ call.result = TRUE
    /\ callerContribution # <<>>
    /\ call.args[1] = callerContribution[1]

\* C27 as claimed: an evaluation attached to a contribution that is already
\* registered shows in the entry getContributions() returns and in its value.
C27_RegistryReflectsAttach ==
    [][ (CallerJustRegistered /\ AttachStep) =>
           LET entry == m_contributions'[Len(m_contributions')]
           IN  /\ \E i \in 1..Len(entry.m_evaluations) :
                     entry.m_evaluations[i] = call'.args[1]
               /\ calculateValue(entry.m_evaluations) =
                     calculateValue(callerContribution'[1].m_evaluations)
      ]_vars

\* C27 amended: the License has no operation that attaches an evaluation to a
\* registered contribution. registerContribution stores a copy of the caller's
\* object with the evaluations attached to it before the call, and the entry
\* and its value are those of that object; an evaluation attached to the
\* caller's object afterwards leaves the entry as it was stored.
C27_RegisterStoresEvaluations ==
    [][ /\ (RegisterStep /\ call'.result = TRUE) =>
              LET entry == m_contributions'[Len(m_contributions')]
              IN  /\ entry = callerContribution[1]
                  /\ entry.m_evaluations = callerContribution[1].m_evaluations
                  /\ calculateValue(entry.m_evaluations) =
                        calculateValue(callerContribution[1].m_evaluations)
        /\ (CallerJustRegistered /\ AttachStep) =>
              m_contributions'[Len(m_contributions')] = call.args[1]
      ]_vars

C27_Witness ==
    /\ call.op = "registerContribution"
    /\ call.result = TRUE
    /\ Len(m_contributions) = 1
    /\ Len(m_contributions[1].m_evaluations) = 2
    /\ m_contributions[1] = callerContribution[1]
    /\ calculateValue(m_contributions[1].m_evaluations) = [num |-> 170, den |-> 2]

\* C28: the operations on the caller's object (constructing it, attaching
\* evaluations to it, computing its value) change neither the contributions
\* the License stores nor their values.
C28_CallerCopyInert ==
    [][ call'.op \in {"CodeContribution", "addMetricEvaluation", "calculateValue"} =>
           /\ m_contributions' = m_contributions
           /\ \A i \in 1..Len(m_contributions) :
                 calculateValue(m_contributions'[i].m_evaluations) =
                    calculateValue(m_contributions[i].m_evaluations)
      ]_vars

C28_Witness ==
    /\ call.op = "addMetricEvaluation"
    /\ callerContribution # <<>>
    /\ Len(callerContribution[1].m_evaluations) = 2
    /\ \E i \in 1..Len(m_contributions) :
          /\ m_contributions[i] = [callerContribution[1] EXCEPT !.m_evaluations = <<>>]
          /\ calculateValue(m_contributions[i].m_evaluations).num = 0

-----------------------------------------------------------------------------
(* Registration claims *)

\* C29: getContributions() is the sequence of the accepted contributions in
\* registration order: an accepted registerContribution appends its argument
\* at the end and leaves the earlier entries as they are, a rejected one
\* leaves the sequence unchanged.
C29_ListInRegistrationOrder ==
    [][ RegisterStep =>
           IF call'.result
           THEN /\ Len(m_contributions') = Len(m_contributions) + 1
                /\ m_contributions'[Len(m_contributions')] = call'.args[1]
                /\ \A i \in 1..Len(m_contributions) :
                      m_contributions'[i] = m_contributions[i]
           ELSE m_contributions' = m_contributions
      ]_vars

C29_Witness ==
    /\ call.op = "registerContribution"
    /\ call.result = FALSE
    /\ Len(m_contributions) = 2
    /\ \A i \in 1..2 : m_contributions[i] # call.args[1]
    /\ m_contributions[1].fileId # m_contributions[2].fileId

\* C30: registerContribution accepts (returns true and stores) every
\* contribution whose line range intersects no stored range of the same
\* fileId: the range that starts right after a stored one, and any range when
\* only other files have stored ranges.
C30_NonIntersectingAccepted ==
    [][ RegisterStep =>
           LET contribution == call'.args[1]
           IN  (\A i \in 1..Len(m_contributions) :
                   m_contributions[i].fileId = contribution.fileId =>
                      ~Intersect(m_contributions[i], contribution))
               => /\ call'.result = TRUE
                  /\ m_contributions'[Len(m_contributions')] = contribution
      ]_vars

C30_Witness ==
    /\ call.op = "registerContribution"
    /\ call.result = TRUE
    /\ Len(m_contributions) = 2
    /\ m_contributions[2] = call.args[1]
    /\ m_contributions[1].fileId = m_contributions[2].fileId
    /\ m_contributions[2].lineStart = m_contributions[1].lineEnd + 1

-----------------------------------------------------------------------------
(* Valuation claims *)

\* C31: evaluateAll returns six evaluations, one for each MetricType and none
\* twice, in the order IMPACT, SIMPLICITY, CLEANNESS, COMMENT, CREDITABILITY,
\* NOVELTY, and the type of each is the type of the evaluator at its position.
C31_SixInEnumOrder ==
    call.op = "evaluateAll" =>
       /\ Len(call.result) = 6
       /\ \A i \in 1..6 : call.result[i].type = MetricTypeOrder[i]
       /\ {call.result[i].type : i \in 1..6} = AllMetricTypes
       /\ \A i, j \in 1..6 : i # j => call.result[i].type # call.result[j].type
       /\ Len(m_evaluators) = 6
       /\ \A i \in 1..6 : call.result[i].type = getType(m_evaluators[i])

C31_Witness ==
    /\ call.op = "evaluateAll"
    /\ call.args[1] = TidyCode
    /\ call.result[1].type = "IMPACT"
    /\ call.result[6].type = "NOVELTY"

\* v is a number of [0, 1]
InUnitInterval(v) == v.den > 0 /\ 0 <= v.num /\ v.num <= v.den

\* C32: for every code fragment, the empty one included, the value of each of
\* the six evaluations is at least 0 and at most 1.
C32_ValuesInUnitInterval ==
    /\ call.op = "evaluateAll" =>
          \A i \in 1..Len(call.result) : InUnitInterval(call.result[i].value)
    /\ \A first \in firstEvaluateAll :
          \A i \in 1..Len(first.result) : InUnitInterval(first.result[i].value)

C32_Witness ==
    /\ call.op = "evaluateAll"
    /\ call.args[1] = ShortCode
    /\ call.result[2].value = One
    /\ \E first \in firstEvaluateAll : first.code = EmptyCode
    /\ \E first \in firstEvaluateAll :
          first.code = DenseCode /\ first.result[2].value = Zero

\* C33: calculateValue(code) is the arithmetic mean of the six values of
\* evaluateAll(code): six times the value is their sum.
C33_ValueIsMeanOfSix ==
    call.op = "MetricsEvaluator::calculateValue" =>
       LET evaluations == evaluateAll(call.args[1])
           v(i) == evaluations[i].value
       IN  /\ Len(evaluations) = 6
           /\ Times(call.result, Fraction(6, 1)) =
                 Plus(v(1), Plus(v(2), Plus(v(3), Plus(v(4), Plus(v(5), v(6))))))

C33_Witness ==
    /\ call.op = "MetricsEvaluator::calculateValue"
    /\ call.args[1] = TidyCode
    /\ Less(Zero, call.result)
    /\ Less(call.result, One)

-----------------------------------------------------------------------------
(* Concurrency claims *)

\* thread w does its lookup or its store in this step
WorkerAccess(w) ==
    /\ threads[w].pc \in {"sleep", "update"}
    /\ threads'[w].pc # threads[w].pc

\* C35: the accesses to m_transactions exclude each other: no sendPayment
\* appends a record while a worker is between its find_if and its store, and
\* no worker does its find_if or its store while a read call of the control
\* thread is in progress.
C35_LogAccessExclusive ==
    [][ /\ Len(m_transactions') > Len(m_transactions) =>
              \A w \in ThreadIds : threads[w].pc # "update"
        /\ (\E w \in ThreadIds : WorkerAccess(w)) => call.status # "running"
      ]_vars

\* C36: every record of the log is the record its own send stored, and its
\* verified flag is set only once the worker of that send has done its store:
\* no worker changes the record of another send, in whatever order the
\* workers run.
C36_WorkerTouchesOwnRecord ==
    /\ Len(m_transactions) = Len(threads)
    /\ \A i \in 1..Len(m_transactions) :
          /\ [m_transactions[i] EXCEPT !.verified = FALSE] = threads[i].transaction
          /\ m_transactions[i].verified =>
                threads[i].pc \in {"callback", "resolve", "done"}

C36_Witness ==
    /\ Len(threads) = 2
    /\ threads[1].pc = "sleep"
    /\ threads[2].pc = "done"
    /\ ~m_transactions[1].verified
    /\ m_transactions[2].verified

\* C37: when the callback is invoked, the transaction it is given is the
\* record of the send as the log holds it at that moment, and the verified
\* field of that transaction is the verified argument.
C37_CallbackGetsLogRecord ==
    [][ \A w \in ThreadIds :
           threads'[w].invocations > threads[w].invocations =>
              LET transaction == CallbackArguments(w)[1]
                  verified == CallbackArguments(w)[2]
              IN  /\ \E i \in 1..Len(m_transactions) :
                        m_transactions[i] = transaction
                  /\ transaction.verified = verified
      ]_vars

\* C38: every lookup and every store of a worker happens while the engine
\* object is alive.
C38_WorkerWithinLifetime ==
    [][ (\E w \in ThreadIds : WorkerAccess(w)) => alive ]_vars

-----------------------------------------------------------------------------
(* Recurring payment and rejection claims *)

\* C39: processDuePayments returns without waiting for the workers: the count
\* it returns is the number of records the call appended to m_transactions,
\* and those records are still unverified when it returns.
C39_CountIsRecordsAppended ==
    [][ StepOf("processDuePayments") =>
           /\ call'.result = Len(m_transactions') - Len(m_transactions)
           /\ \A k \in 1..Len(NewRecords) : ~NewRecords[k].verified
      ]_vars

\* line lies within the closed range of the stored contribution c
Within(line, c) == c.lineStart <= line /\ line <= c.lineEnd

\* C40: registerContribution returns false and leaves m_contributions as it
\* is for every contribution whose start line or end line lies within the
\* range of a stored contribution of the same fileId.
C40_OverlapRejected ==
    [][ RegisterStep =>
           LET contribution == call'.args[1]
           IN  (\E i \in 1..Len(m_contributions) :
                   /\ m_contributions[i].fileId = contribution.fileId
                   /\ \/ Within(contribution.lineStart, m_contributions[i])
                      \/ Within(contribution.lineEnd, m_contributions[i]))
               => /\ call'.result = FALSE
                  /\ m_contributions' = m_contributions
      ]_vars

C40_Witness ==
    /\ call.op = "registerContribution"
    /\ call.result = FALSE
    /\ Len(m_contributions) = 1
    /\ m_contributions[1].fileId = call.args[1].fileId
    /\ call.args[1].lineStart < m_contributions[1].lineStart
    /\ Within(call.args[1].lineEnd, m_contributions[1])
    /\ call.args[1].lineEnd < m_contributions[1].lineEnd

====
